---- MODULE Spec2Model ----
(***************************************************************************)
(* Stripe billing synchronisation of the NestJS starter kit:               *)
(*   PaymentsController.handleWebhook   (payments.controller.ts)           *)
(*   WebhookService                     (webhook.service.ts)               *)
(*   PaymentsService                    (payments.service.ts)              *)
(*   StripeService                      (stripe.service.ts)                *)
(* over the Prisma tables users, products, prices, subscriptions,          *)
(* payment_methods and webhook_events.                                     *)
(*                                                                         *)
(* Every awaited storage call or processor call is one step; handlers of   *)
(* different requests interleave at those steps.  Rows are keyed by their  *)
(* unique external id, which also stands for the row's cuid (the two are   *)
(* in one-to-one correspondence and neither is ever reassigned).           *)
(* Columns that no handler reads (createdAt, updatedAt, processedAt,       *)
(* metadata, data, nickname, description) are left out of the rows.        *)
(***************************************************************************)
EXTENDS Integers, Sequences, FiniteSets, TLC

VARIABLES
    users,      \* users table:           user id      -> row
    products,   \* products table:        stripeProductId -> row
    prices,     \* prices table:          stripePriceId   -> row
    subs,       \* subscriptions table:   stripeSubscriptionId -> row
    pms,        \* payment_methods table: stripePaymentMethodId -> row
    ledger,     \* webhook_events table:  stripeEventId -> row
    now,        \* the wall clock, in half-second ticks
    sent,       \* the event ids the processor has emitted and may (re)deliver
    dl,         \* the webhook requests in flight, one per worker
    act,        \* the action-service request in flight
    sync,       \* the catalog sync in flight
    stripe      \* the processor's own state

vars == <<users, products, prices, subs, pms, ledger, now, sent, dl, act, sync, stripe>>
tables == <<users, products, prices, subs, pms>>

----------------------------------------------------------------------------
(* Bounds and constants                                                    *)

\* The clock stops after MaxTime ticks.
MaxTime == 3

\* new Date(epochSeconds * 1000)
MsPerSec == 1000

\* A null DateTime? / Int? column, and a null timestamp of a payload.
NoDate == -1

NULL == "null"

Workers == {"w1", "w2"}

\* new Date(): the clock ticks twice a second.
NowMs == now * (MsPerSec \div 2)

\* x ? new Date(x * 1000) : null    (0 is falsy, like null)
ToDate(x) == IF x = NoDate \/ x = 0 THEN NoDate ELSE x * MsPerSec

\* new Date(x * 1000), for the period bounds that are never null
ToDateStrict(x) == x * MsPerSec

----------------------------------------------------------------------------
(* The event payloads the processor can emit.  An event id fixes its       *)
(* payload: a redelivery carries the same bytes.                           *)

SubObj(id, customer, price, status, cape, cancelAt, canceledAt, cps, cpe, endedAt, ts, te) ==
    [id |-> id, customer |-> customer, price |-> price, status |-> status,
     cancel_at_period_end |-> cape, cancel_at |-> cancelAt, canceled_at |-> canceledAt,
     current_period_start |-> cps, current_period_end |-> cpe, ended_at |-> endedAt,
     trial_start |-> ts, trial_end |-> te]

PriceObj(id, product, type, recurring, unit, active) ==
    [id |-> id, product |-> product, type |-> type, recurring |-> recurring,
     unit_amount |-> unit, active |-> active]

NoRecurring == [interval |-> NULL, interval_count |-> NoDate]
Recurring(i, n) == [interval |-> i, interval_count |-> n]

NoCard == [brand |-> NULL, last4 |-> NULL, exp_month |-> NoDate, exp_year |-> NoDate]

ProductObj(id, name, active) == [id |-> id, name |-> name, active |-> active]

\* customer.subscription.updated of sub_1, one event per status of the
\* processor's vocabulary, and one with a status outside it.
StatusEvents ==
    ("evt_st_incomplete" :> "incomplete") @@
    ("evt_st_incomplete_expired" :> "incomplete_expired") @@
    ("evt_st_trialing" :> "trialing") @@
    ("evt_st_active" :> "active") @@
    ("evt_st_past_due" :> "past_due") @@
    ("evt_st_canceled" :> "canceled") @@
    ("evt_st_unpaid" :> "unpaid") @@
    ("evt_st_paused" :> "paused") @@
    ("evt_st_other" :> "pending_review")

Event(e) ==
    CASE e \in DOMAIN StatusEvents ->
            [type |-> "customer.subscription.updated",
             object |-> SubObj("sub_1", "cus_1", "price_1", StatusEvents[e], FALSE, NoDate,
                               NoDate, 1, 3, NoDate, NoDate, NoDate)]
      [] e = "evt_price1" ->
            [type |-> "price.updated",
             object |-> PriceObj("price_1", "prod_1", "recurring", Recurring("month", 1), 10, TRUE)]
      [] e = "evt_price3" ->
            [type |-> "price.created",
             object |-> PriceObj("price_3", "prod_1", "one_time", NoRecurring, 30, TRUE)]
      [] e = "evt_prod1" ->
            [type |-> "product.created", object |-> ProductObj("prod_1", "Pro", TRUE)]
      [] e = "evt_prod1upd" ->
            [type |-> "product.updated", object |-> ProductObj("prod_1", "Pro+", TRUE)]
      [] e = "evt_prod1del" ->
            [type |-> "product.deleted", object |-> ProductObj("prod_1", "Pro", FALSE)]
      [] e = "evt_price1del" ->
            [type |-> "price.deleted",
             object |-> PriceObj("price_1", "prod_1", "recurring", Recurring("month", 1), 10, FALSE)]
      [] e = "evt_sub1upd" ->
            [type |-> "customer.subscription.updated",
             object |-> SubObj("sub_1", "cus_1", "price_2", "past_due", TRUE, 4, 1, 2, 4,
                               NoDate, NoDate, NoDate)]
      [] e = "evt_sub1del" ->
            [type |-> "customer.subscription.deleted",
             object |-> SubObj("sub_1", "cus_1", "price_1", "canceled", FALSE, NoDate, 1, 1, 3,
                               1, NoDate, NoDate)]
      [] e = "evt_sub3new" ->
            [type |-> "customer.subscription.created",
             object |-> SubObj("sub_3", "cus_1", "price_1", "trialing", FALSE, NoDate, NoDate,
                               1, 3, NoDate, 1, 2)]
      [] e = "evt_sub9del" ->
            [type |-> "customer.subscription.deleted",
             object |-> SubObj("sub_9", "cus_1", "price_1", "canceled", FALSE, NoDate, 1, 1, 3,
                               1, NoDate, NoDate)]
      [] e = "evt_sub4nocus" ->
            [type |-> "customer.subscription.created",
             object |-> SubObj("sub_4", "cus_9", "price_1", "active", FALSE, NoDate, NoDate,
                               1, 3, NoDate, NoDate, NoDate)]
      [] e = "evt_sub5noprice" ->
            [type |-> "customer.subscription.created",
             object |-> SubObj("sub_5", "cus_1", "price_9", "active", FALSE, NoDate, NoDate,
                               1, 3, NoDate, NoDate, NoDate)]
      [] e = "evt_sub6noitem" ->
            [type |-> "customer.subscription.updated",
             object |-> SubObj("sub_1", "cus_1", NULL, "unpaid", FALSE, NoDate, NoDate,
                               1, 3, NoDate, NoDate, NoDate)]
      [] e = "evt_inv1ok" ->
            [type |-> "invoice.payment_succeeded", object |-> [subscription |-> "sub_2"]]
      [] e = "evt_inv1fail" ->
            [type |-> "invoice.payment_failed", object |-> [subscription |-> "sub_2"]]
      [] e = "evt_inv9ok" ->
            [type |-> "invoice.payment_succeeded", object |-> [subscription |-> "sub_9"]]
      [] e = "evt_inv0fail" ->
            [type |-> "invoice.payment_failed", object |-> [subscription |-> NULL]]
      [] e = "evt_inv0ok" ->
            [type |-> "invoice.payment_succeeded", object |-> [subscription |-> NULL]]
      [] e = "evt_inv3fail" ->
            [type |-> "invoice.payment_failed", object |-> [subscription |-> "sub_1"]]
      [] e = "evt_inv3ok" ->
            [type |-> "invoice.payment_succeeded", object |-> [subscription |-> "sub_1"]]
      [] e = "evt_cus2" ->
            [type |-> "customer.created", object |-> [id |-> "cus_2", email |-> "b@x"]]
      [] e = "evt_cus1dup" ->
            [type |-> "customer.created", object |-> [id |-> "cus_1", email |-> "b@x"]]
      [] e = "evt_cus3" ->
            [type |-> "customer.created", object |-> [id |-> "cus_3", email |-> "a@x"]]
      [] e = "evt_cus1upd" ->
            [type |-> "customer.updated", object |-> [id |-> "cus_1", email |-> "a@x"]]
      [] e = "evt_pm1" ->
            [type |-> "payment_method.attached",
             object |-> [id |-> "pm_1", customer |-> "cus_1", type |-> "card",
                         card |-> [brand |-> "visa", last4 |-> "4242",
                                   exp_month |-> 12, exp_year |-> 30]]]
      [] e = "evt_pm2nocus" ->
            [type |-> "payment_method.attached",
             object |-> [id |-> "pm_2", customer |-> "cus_9", type |-> "sepa_debit",
                         card |-> NoCard]]
      [] e = "evt_pm3null" ->
            [type |-> "payment_method.attached",
             object |-> [id |-> "pm_3", customer |-> NULL, type |-> "card", card |-> NoCard]]
      [] e = "evt_pm1det" ->
            [type |-> "payment_method.detached",
             object |-> [id |-> "pm_1", customer |-> NULL, type |-> "card", card |-> NoCard]]
      [] OTHER ->
            [type |-> "charge.succeeded", object |-> [id |-> "ch_1"]]

EvType(e) == Event(e).type
EvObj(e) == Event(e).object

----------------------------------------------------------------------------
(* Storage                                                                 *)

EmptyTable == [k \in {} |-> NULL]

Has(table, k) == k \in DOMAIN table

\* prisma upsert / create on a unique key
Put(table, k, row) == (k :> row) @@ table

\* prisma delete
Remove(table, k) == [x \in DOMAIN table \ {k} |-> table[x]]

UserRow(email, customer) == [email |-> email, stripeCustomerId |-> customer]

ProductRow(name, active) == [name |-> name, active |-> active]

PriceRow(productId, type, unit, interval, count, active) ==
    [productId |-> productId, type |-> type, unitAmount |-> unit,
     interval |-> interval, intervalCount |-> count, active |-> active]

SubRow(userId, priceId, status, cape, cancelAt, canceledAt, cps, cpe, endedAt, ts, te) ==
    [userId |-> userId, priceId |-> priceId, status |-> status,
     cancelAtPeriodEnd |-> cape, cancelAt |-> cancelAt, canceledAt |-> canceledAt,
     currentPeriodStart |-> cps, currentPeriodEnd |-> cpe, endedAt |-> endedAt,
     trialStart |-> ts, trialEnd |-> te]

\* The user is found only while no payment method of theirs is stored.
FindUserWithoutCard(c) ==
    LET Hit(u) == /\ users[u].stripeCustomerId = c
                  /\ \A m \in DOMAIN pms : pms[m].userId # u IN
    IF c # NULL /\ \E u \in DOMAIN users : Hit(u)
    THEN CHOOSE u \in DOMAIN users : Hit(u)
    ELSE NULL

\* prisma.user.findUnique({ where: { stripeCustomerId } }): the user id or NULL
FindUserByCustomer(c) ==
    IF c # NULL /\ \E u \in DOMAIN users : users[u].stripeCustomerId = c
    THEN CHOOSE u \in DOMAIN users : users[u].stripeCustomerId = c
    ELSE NULL

----------------------------------------------------------------------------
(* Databases the service can be started on.  Each names the events the     *)
(* processor emits against it.                                             *)

SeedUsers == ("u1" :> UserRow("a@x", "cus_1")) @@ ("u2" :> UserRow("b@x", NULL))

SeedProducts == ("prod_1" :> ProductRow("Pro", TRUE))

SeedPrices ==
    ("price_1" :> PriceRow("prod_1", "RECURRING", 10, "MONTH", 1, TRUE)) @@
    ("price_2" :> PriceRow("prod_1", "RECURRING", 20, "YEAR", 1, TRUE))

SeedSubs ==
    ("sub_1" :> SubRow("u1", "price_1", "ACTIVE", FALSE, NoDate, NoDate,
                       1 * MsPerSec, 3 * MsPerSec, NoDate, NoDate, NoDate)) @@
    ("sub_2" :> SubRow("u1", "price_1", "PAST_DUE", FALSE, NoDate, NoDate,
                       1 * MsPerSec, 3 * MsPerSec, NoDate, NoDate, NoDate))

Scenario(pr, pc, sb, evs) == [products |-> pr, prices |-> pc, subs |-> sb, events |-> evs]

Scenarios ==
    { Scenario(EmptyTable, EmptyTable, EmptyTable, {"evt_price1", "evt_prod1"}),
      Scenario(EmptyTable, EmptyTable, EmptyTable, {"evt_prod1upd", "evt_prod1del"}),
      Scenario(SeedProducts, SeedPrices, SeedSubs, {"evt_price3", "evt_price1del"}),
      Scenario(SeedProducts, SeedPrices, SeedSubs, {"evt_sub1upd", "evt_sub1del"}),
      Scenario(SeedProducts, SeedPrices, SeedSubs, {"evt_sub3new", "evt_sub6noitem"}),
      Scenario(SeedProducts, SeedPrices, SeedSubs, {"evt_sub9del", "evt_inv1ok"}),
      Scenario(SeedProducts, SeedPrices, SeedSubs, {"evt_sub4nocus", "evt_sub5noprice"}),
      Scenario(SeedProducts, SeedPrices, SeedSubs, {"evt_inv1fail", "evt_inv9ok"}),
      Scenario(SeedProducts, SeedPrices, SeedSubs, {"evt_inv0fail", "evt_other"}),
      Scenario(SeedProducts, SeedPrices, SeedSubs, {"evt_inv1ok", "evt_inv3fail"}),
      Scenario(SeedProducts, SeedPrices, SeedSubs, {"evt_inv0ok", "evt_inv1fail"}),
      Scenario(SeedProducts, SeedPrices, SeedSubs, {"evt_cus2", "evt_cus1dup"}),
      Scenario(SeedProducts, SeedPrices, SeedSubs, {"evt_cus3", "evt_cus2"}),
      Scenario(SeedProducts, SeedPrices, SeedSubs, {"evt_cus1upd", "evt_pm2nocus"}),
      Scenario(SeedProducts, SeedPrices, SeedSubs, {"evt_pm1", "evt_pm1det"}),
      Scenario(SeedProducts, SeedPrices, SeedSubs, {"evt_pm3null", "evt_pm1"}),
      Scenario(SeedProducts, SeedPrices, SeedSubs, {"evt_sub3new", "evt_pm1"}),
      Scenario(SeedProducts, SeedPrices, SeedSubs, {"evt_sub1del", "evt_inv3ok"}) }

----------------------------------------------------------------------------
(* Webhook requests                                                        *)

\* What a POST /payments/webhook can carry.
Requests == {"ok", "nosig", "nobody", "badsig"}

Idle == [pc |-> "idle", ev |-> NULL, req |-> NULL, resp |-> 0, ran |-> FALSE,
         threw |-> FALSE, touched |-> FALSE, r1 |-> NULL, r2 |-> NULL]

\* An action-service call: its arguments, what it has read, and how it ended.
ActIdle == [pc |-> "idle", op |-> NULL, user |-> NULL, sub |-> NULL, price |-> NULL,
            immediate |-> FALSE, cust |-> NULL, status |-> NULL, cape |-> FALSE,
            cancelAt |-> NoDate, result |-> NULL, wrote |-> FALSE, called |-> FALSE]

Callers == {"a1", "a2"}

SyncIdle == [pc |-> "idle", products |-> <<>>, prices |-> <<>>, i |-> 0, j |-> 0,
             found |-> NULL]

\* The processor: customers created so far, checkout sessions created, and its
\* catalog (the product and price objects it lists).
StripeInit == [customers |-> 0, sessions |-> {}, products |-> EmptyTable,
               prices |-> EmptyTable]

Init ==
    /\ \E sc \in Scenarios :
          /\ products = sc.products
          /\ prices = sc.prices
          /\ subs = sc.subs
          /\ sent = sc.events
    /\ users = SeedUsers
    /\ pms = EmptyTable
    /\ ledger = EmptyTable
    /\ now = 0
    /\ dl = [w \in Workers |-> Idle]
    /\ act = [c \in Callers |-> ActIdle]
    /\ sync = SyncIdle
    /\ stripe = StripeInit

\* The request of worker w moves on; nothing else of the requests changes.
Move(w, next) == dl' = [dl EXCEPT ![w] = next]

Goto(w, p) == Move(w, [dl[w] EXCEPT !.pc = p])

\* The handler returns or throws: the controller answers.
Answer(w, status) == [dl[w] EXCEPT !.pc = "done", !.resp = status]

At(w, p) == dl[w].pc = p

Others == <<now, sent, act, sync, stripe>>

\* StripeService.constructWebhookEvent: stripe.webhooks.constructEvent throws
\* unless the signature verifies.
ConstructWebhookEventThrows(req) == req = "badsig"

\* The event is taken from the body without constructWebhookEvent.
RejectedUnverified(req) == req = "nosig" \/ req = "nobody"

\* PaymentsController.handleWebhook up to the call of handleWebhookEvent:
\* TRUE when the request is rejected before the service is called.
Rejected(req) ==
    \/ req = "nosig"
    \/ req = "nobody"
    \/ ConstructWebhookEventThrows(req)

\* POST /payments/webhook arrives and is verified.
HandleWebhook(w) ==
    /\ At(w, "idle")
    /\ \E e \in sent, req \in Requests :
          IF Rejected(req)
          THEN Move(w, [dl[w] EXCEPT !.pc = "done", !.req = req, !.resp = 400])
          ELSE Move(w, [dl[w] EXCEPT !.pc = "check", !.req = req, !.ev = e])
    /\ UNCHANGED <<tables, ledger, Others>>

\* The processed flag is not looked at.
AlreadyProcessedIgnored(e) == FALSE

\* existingEvent?.processed
AlreadyProcessed(e) == Has(ledger, e) /\ ledger[e].processed

\* handleWebhookEvent: findUnique, and the early return.
FindExisting(w) ==
    /\ At(w, "check")
    /\ LET d == [dl[w] EXCEPT !.touched = TRUE] IN
       IF AlreadyProcessed(dl[w].ev)
       THEN Move(w, [d EXCEPT !.pc = "done", !.resp = 200])
       ELSE Move(w, [d EXCEPT !.pc = "store"])
    /\ UNCHANGED <<tables, ledger, Others>>

\* The update branch of the upsert writes processed: false.
StoreEventResets(w) ==
    /\ At(w, "store")
    /\ ledger' = Put(ledger, dl[w].ev, [type |-> EvType(dl[w].ev), processed |-> FALSE])
    /\ Goto(w, "proc")
    /\ UNCHANGED <<tables, Others>>

\* handleWebhookEvent: webhookEvent.upsert
StoreEvent(w) ==
    /\ At(w, "store")
    /\ LET e == dl[w].ev IN
       ledger' = IF Has(ledger, e)
                 THEN [ledger EXCEPT ![e].type = EvType(e)]
                 ELSE Put(ledger, e, [type |-> EvType(e), processed |-> FALSE])
    /\ Goto(w, "proc")
    /\ UNCHANGED <<tables, Others>>

\* The record is left as it is and the delivery is acknowledged.
MarkProcessedForgets(w) ==
    /\ At(w, "mark")
    /\ ledger' = ledger
    /\ Move(w, Answer(w, 200))
    /\ UNCHANGED <<tables, Others>>

\* handleWebhookEvent: webhookEvent.update after processEvent returned.
MarkProcessed(w) ==
    /\ At(w, "mark")
    /\ ledger' = [ledger EXCEPT ![dl[w].ev].processed = TRUE]
    /\ Move(w, Answer(w, 200))
    /\ UNCHANGED <<tables, Others>>

\* The catch block swallows the error and the controller acknowledges.
ThrownSwallowed(w) == [dl[w] EXCEPT !.pc = "done", !.resp = 200, !.ran = TRUE, !.threw = TRUE]

\* A storage call of the reconciler rejects: handleWebhookEvent rethrows and
\* the controller answers BadRequestException.
Thrown(w) == [dl[w] EXCEPT !.pc = "done", !.resp = 400, !.ran = TRUE, !.threw = TRUE]

\* The cases of the switch in processEvent.
HandledTypes ==
    {"customer.subscription.created", "customer.subscription.updated",
     "customer.subscription.deleted", "invoice.payment_succeeded",
     "invoice.payment_failed", "customer.created", "customer.updated",
     "product.created", "product.updated", "product.deleted",
     "price.created", "price.updated", "price.deleted",
     "payment_method.attached", "payment_method.detached"}

\* The default case makes no storage call, and handlePaymentMethodDetached
\* catches whatever its delete rejects with: the other types can throw.
ReconcilerThrows(w) ==
    /\ dl[w].pc \in {"proc", "read2", "write"}
    /\ EvType(dl[w].ev) \in HandledTypes \ {"payment_method.detached"}
    /\ Move(w, Thrown(w))
    /\ UNCHANGED <<tables, ledger, Others>>

\* The response is sent; the worker takes the next request.
Respond(w) ==
    /\ At(w, "done")
    /\ Move(w, Idle)
    /\ UNCHANGED <<tables, ledger, Others>>

Tick ==
    /\ now < MaxTime
    /\ now' = now + 1
    /\ UNCHANGED <<tables, ledger, sent, dl, act, sync, stripe>>

----------------------------------------------------------------------------
(* WebhookService.processEvent and the reconcilers                         *)

\* A worker is at the first storage call of the reconciler of one of `types`.
Dispatch(w, types) == At(w, "proc") /\ EvType(dl[w].ev) \in types

\* processEvent has been entered; the reconciler goes on at p.
Ran(w, p) == [dl[w] EXCEPT !.pc = p, !.ran = TRUE]

\* The switch has no case 'paused'.
MapSubscriptionStatusNoPaused(stripeStatus) ==
    CASE stripeStatus = "incomplete" -> "INCOMPLETE"
      [] stripeStatus = "incomplete_expired" -> "INCOMPLETE_EXPIRED"
      [] stripeStatus = "trialing" -> "TRIALING"
      [] stripeStatus = "active" -> "ACTIVE"
      [] stripeStatus = "past_due" -> "PAST_DUE"
      [] stripeStatus = "canceled" -> "CANCELED"
      [] stripeStatus = "unpaid" -> "UNPAID"
      [] OTHER -> "INCOMPLETE"

MapSubscriptionStatus(stripeStatus) ==
    CASE stripeStatus = "incomplete" -> "INCOMPLETE"
      [] stripeStatus = "incomplete_expired" -> "INCOMPLETE_EXPIRED"
      [] stripeStatus = "trialing" -> "TRIALING"
      [] stripeStatus = "active" -> "ACTIVE"
      [] stripeStatus = "past_due" -> "PAST_DUE"
      [] stripeStatus = "canceled" -> "CANCELED"
      [] stripeStatus = "unpaid" -> "UNPAID"
      [] stripeStatus = "paused" -> "PAUSED"
      [] OTHER -> "INCOMPLETE"

\* subscription.upsert, the update branch: the columns it lists.
SubscriptionUpdate(row, s) ==
    [row EXCEPT !.status = MapSubscriptionStatus(s.status),
                !.cancelAtPeriodEnd = s.cancel_at_period_end,
                !.cancelAt = ToDate(s.cancel_at),
                !.canceledAt = ToDate(s.canceled_at),
                !.currentPeriodStart = ToDateStrict(s.current_period_start),
                !.currentPeriodEnd = ToDateStrict(s.current_period_end),
                !.endedAt = ToDate(s.ended_at),
                !.trialStart = ToDate(s.trial_start),
                !.trialEnd = ToDate(s.trial_end)]

\* subscription.upsert, the create branch.
SubscriptionCreate(s, userId, priceId) ==
    SubRow(userId, priceId, MapSubscriptionStatus(s.status), s.cancel_at_period_end,
           ToDate(s.cancel_at), ToDate(s.canceled_at),
           ToDateStrict(s.current_period_start), ToDateStrict(s.current_period_end),
           ToDate(s.ended_at), ToDate(s.trial_start), ToDate(s.trial_end))

\* if (!user) return
UserResolved(user) == user # NULL

\* handleSubscriptionUpdated: user.findUnique by stripeCustomerId.
SubscriptionFindUser(w) ==
    /\ Dispatch(w, {"customer.subscription.created", "customer.subscription.updated"})
    /\ LET user == FindUserByCustomer(EvObj(dl[w].ev).customer) IN
       IF UserResolved(user)
       THEN Move(w, [Ran(w, "read2") EXCEPT !.r1 = user])
       ELSE Move(w, Ran(w, "mark"))
    /\ UNCHANGED <<tables, ledger, Others>>

\* if (!price) return
PriceResolved(price) == price # NULL

\* handleSubscriptionUpdated: items.data[0]?.price.id and price.findUnique.
SubscriptionFindPrice(w) ==
    /\ At(w, "read2")
    /\ LET stripePriceId == EvObj(dl[w].ev).price
           price == IF stripePriceId # NULL /\ Has(prices, stripePriceId)
                    THEN stripePriceId ELSE NULL IN
       IF stripePriceId # NULL /\ PriceResolved(price)
       THEN Move(w, [dl[w] EXCEPT !.pc = "write", !.r2 = price])
       ELSE Goto(w, "mark")
    /\ UNCHANGED <<tables, ledger, Others>>

IsSubscriptionUpsert(w) ==
    EvType(dl[w].ev) \in {"customer.subscription.created", "customer.subscription.updated"}

\* handleSubscriptionUpdated: subscription.upsert.
SubscriptionUpsert(w) ==
    /\ At(w, "write") /\ IsSubscriptionUpsert(w)
    /\ LET s == EvObj(dl[w].ev) IN
       subs' = IF Has(subs, s.id)
               THEN [subs EXCEPT ![s.id] = SubscriptionUpdate(subs[s.id], s)]
               ELSE Put(subs, s.id, SubscriptionCreate(s, dl[w].r1, dl[w].r2))
    /\ Goto(w, "mark")
    /\ UNCHANGED <<users, products, prices, pms, ledger, Others>>

\* endedAt is not stamped.
TerminatedUnstamped(row) == [row EXCEPT !.status = "CANCELED"]

\* handleSubscriptionDeleted: the row after updateMany.
Terminated(row) == [row EXCEPT !.status = "CANCELED", !.endedAt = NowMs]

HandleSubscriptionDeleted(w) ==
    /\ Dispatch(w, {"customer.subscription.deleted"})
    /\ LET id == EvObj(dl[w].ev).id IN
       subs' = IF Has(subs, id) THEN [subs EXCEPT ![id] = Terminated(subs[id])] ELSE subs
    /\ Move(w, Ran(w, "mark"))
    /\ UNCHANGED <<users, products, prices, pms, ledger, Others>>

\* handleInvoicePaymentSucceeded: subscription.findUnique and the test on it.
InvoiceSucceededFind(w) ==
    /\ Dispatch(w, {"invoice.payment_succeeded"})
    /\ LET id == EvObj(dl[w].ev).subscription IN
       IF id # NULL /\ Has(subs, id) /\ subs[id].status # "ACTIVE"
       THEN Move(w, [Ran(w, "write") EXCEPT !.r1 = id])
       ELSE Move(w, Ran(w, "mark"))
    /\ UNCHANGED <<tables, ledger, Others>>

\* handleInvoicePaymentSucceeded: subscription.update by id.
InvoiceSucceededUpdate(w) ==
    /\ At(w, "write") /\ EvType(dl[w].ev) = "invoice.payment_succeeded"
    /\ subs' = [subs EXCEPT ![dl[w].r1].status = "ACTIVE"]
    /\ Goto(w, "mark")
    /\ UNCHANGED <<users, products, prices, pms, ledger, Others>>

\* updateMany matches every subscription of the user of the invoice's subscription.
HandleInvoicePaymentFailedByUser(w) ==
    /\ Dispatch(w, {"invoice.payment_failed"})
    /\ LET id == EvObj(dl[w].ev).subscription IN
       subs' = IF id # NULL /\ Has(subs, id)
               THEN [x \in DOMAIN subs |->
                        IF subs[x].userId = subs[id].userId
                        THEN [subs[x] EXCEPT !.status = "PAST_DUE"] ELSE subs[x]]
               ELSE subs
    /\ Move(w, Ran(w, "mark"))
    /\ UNCHANGED <<users, products, prices, pms, ledger, Others>>

\* handleInvoicePaymentFailed: subscription.updateMany by stripeSubscriptionId.
HandleInvoicePaymentFailed(w) ==
    /\ Dispatch(w, {"invoice.payment_failed"})
    /\ LET id == EvObj(dl[w].ev).subscription IN
       subs' = IF id # NULL /\ Has(subs, id)
               THEN [subs EXCEPT ![id].status = "PAST_DUE"] ELSE subs
    /\ Move(w, Ran(w, "mark"))
    /\ UNCHANGED <<users, products, prices, pms, ledger, Others>>

\* The where clause is { email } alone.
LinkTargetsByEmail(customer) ==
    {u \in DOMAIN users : customer.email # NULL /\ users[u].email = customer.email}

\* handleCustomerCreated: the users updateMany({ email, stripeCustomerId: null }) matches.
LinkTargets(customer) ==
    {u \in DOMAIN users :
        /\ customer.email # NULL
        /\ users[u].email = customer.email
        /\ users[u].stripeCustomerId = NULL}

\* users.stripeCustomerId is @unique: writing an id another row holds rejects.
CustomerIdTaken(id, u) ==
    \E v \in DOMAIN users \ {u} : users[v].stripeCustomerId = id

HandleCustomerCreated(w) ==
    /\ Dispatch(w, {"customer.created"})
    /\ LET customer == EvObj(dl[w].ev)
           hit == LinkTargets(customer) IN
       IF \E u \in hit : CustomerIdTaken(customer.id, u)
       THEN /\ Move(w, Thrown(w))
            /\ users' = users
       ELSE /\ Move(w, Ran(w, "mark"))
            /\ users' = [u \in DOMAIN users |->
                            IF u \in hit
                            THEN [users[u] EXCEPT !.stripeCustomerId = customer.id]
                            ELSE users[u]]
    /\ UNCHANGED <<products, prices, subs, pms, ledger, Others>>

\* handleCustomerUpdated: updateMany writes updatedAt only.
HandleCustomerUpdated(w) ==
    /\ Dispatch(w, {"customer.updated"})
    /\ Move(w, Ran(w, "mark"))
    /\ UNCHANGED <<tables, ledger, Others>>

\* product.upsert: the row for a product payload, update and create alike.
ProductUpsert(table, product) ==
    Put(table, product.id, ProductRow(product.name, product.active))

HandleProductUpdated(w) ==
    /\ Dispatch(w, {"product.created", "product.updated"})
    /\ products' = ProductUpsert(products, EvObj(dl[w].ev))
    /\ Move(w, Ran(w, "mark"))
    /\ UNCHANGED <<users, prices, subs, pms, ledger, Others>>

\* delete({ where: { key } })
HardDelete(table, k) == Remove(table, k)

\* updateMany({ where: { key }, data: { active: false } })
Deactivate(table, k) ==
    IF Has(table, k) THEN [table EXCEPT ![k].active = FALSE] ELSE table

HandleProductDeleted(w) ==
    /\ Dispatch(w, {"product.deleted"})
    /\ products' = Deactivate(products, EvObj(dl[w].ev).id)
    /\ Move(w, Ran(w, "mark"))
    /\ UNCHANGED <<users, prices, subs, pms, ledger, Others>>

\* The product is not tested.
ProductAssumed(product) == TRUE

\* if (!product) return
ProductResolved(product) == product # NULL

\* product.findUnique by stripeProductId: the product id or NULL
FindProduct(id) == IF Has(products, id) THEN id ELSE NULL

\* handlePriceUpdated: product.findUnique.
PriceFindProduct(w) ==
    /\ Dispatch(w, {"price.created", "price.updated"})
    /\ LET product == FindProduct(EvObj(dl[w].ev).product) IN
       IF ProductResolved(product)
       THEN Move(w, [Ran(w, "write") EXCEPT !.r1 = product])
       ELSE Move(w, Ran(w, "mark"))
    /\ UNCHANGED <<tables, ledger, Others>>

\* The type is not looked at.
PriceTypeRecurring(price) == "RECURRING"

\* priceType
PriceType(price) == IF price.type = "recurring" THEN "RECURRING" ELSE "ONE_TIME"

PriceInterval(price) ==
    IF price.recurring # NoRecurring
    THEN CASE price.recurring.interval = "day" -> "DAY"
           [] price.recurring.interval = "week" -> "WEEK"
           [] price.recurring.interval = "month" -> "MONTH"
           [] price.recurring.interval = "year" -> "YEAR"
           [] OTHER -> NULL
    ELSE NULL

PriceIntervalCount(price) ==
    IF price.recurring # NoRecurring THEN price.recurring.interval_count ELSE NoDate

\* price.upsert: productId is written by the create branch only.
PriceUpsert(table, price, productId) ==
    LET row == PriceRow(productId, PriceType(price), price.unit_amount,
                        PriceInterval(price), PriceIntervalCount(price), price.active) IN
    IF Has(table, price.id)
    THEN [table EXCEPT ![price.id] = [row EXCEPT !.productId = table[price.id].productId]]
    ELSE Put(table, price.id, row)

IsPriceUpsert(w) == EvType(dl[w].ev) \in {"price.created", "price.updated"}

\* handlePriceUpdated: price.upsert.
PriceWrite(w) ==
    /\ At(w, "write") /\ IsPriceUpsert(w)
    /\ prices' = PriceUpsert(prices, EvObj(dl[w].ev), dl[w].r1)
    /\ Goto(w, "mark")
    /\ UNCHANGED <<users, products, subs, pms, ledger, Others>>

HandlePriceDeleted(w) ==
    /\ Dispatch(w, {"price.deleted"})
    /\ prices' = Deactivate(prices, EvObj(dl[w].ev).id)
    /\ Move(w, Ran(w, "mark"))
    /\ UNCHANGED <<users, products, subs, pms, ledger, Others>>

\* handlePaymentMethodAttached: the customer test and user.findUnique.
PaymentMethodFindUser(w) ==
    /\ Dispatch(w, {"payment_method.attached"})
    /\ LET user == FindUserByCustomer(EvObj(dl[w].ev).customer) IN
       IF EvObj(dl[w].ev).customer # NULL /\ UserResolved(user)
       THEN Move(w, [Ran(w, "write") EXCEPT !.r1 = user])
       ELSE Move(w, Ran(w, "mark"))
    /\ UNCHANGED <<tables, ledger, Others>>

\* paymentMethod.upsert: userId and isDefault (@default(false)) come from create.
PaymentMethodUpsert(table, pm, userId) ==
    LET card == pm.card
        row == [userId |-> userId, type |-> pm.type,
                brand |-> IF card # NoCard THEN card.brand ELSE NULL,
                last4 |-> IF card # NoCard THEN card.last4 ELSE NULL,
                expiryMonth |-> IF card # NoCard THEN card.exp_month ELSE NoDate,
                expiryYear |-> IF card # NoCard THEN card.exp_year ELSE NoDate,
                isDefault |-> FALSE] IN
    IF Has(table, pm.id)
    THEN [table EXCEPT ![pm.id] = [row EXCEPT !.userId = table[pm.id].userId,
                                              !.isDefault = table[pm.id].isDefault]]
    ELSE Put(table, pm.id, row)

PaymentMethodWrite(w) ==
    /\ At(w, "write") /\ EvType(dl[w].ev) = "payment_method.attached"
    /\ pms' = PaymentMethodUpsert(pms, EvObj(dl[w].ev), dl[w].r1)
    /\ Goto(w, "mark")
    /\ UNCHANGED <<users, products, prices, subs, ledger, Others>>

\* paymentMethod.delete(...) without the catch: an absent row rejects.
HandlePaymentMethodDetachedStrict(w) ==
    /\ Dispatch(w, {"payment_method.detached"})
    /\ IF Has(pms, EvObj(dl[w].ev).id)
       THEN pms' = Remove(pms, EvObj(dl[w].ev).id) /\ Move(w, Ran(w, "mark"))
       ELSE pms' = pms /\ Move(w, Thrown(w))
    /\ UNCHANGED <<users, products, prices, subs, ledger, Others>>

\* paymentMethod.delete(...).catch(() => {}) when storage rejects the delete for
\* another reason than an absent row: the rejection is swallowed as well.
DetachRejected(w) ==
    /\ Dispatch(w, {"payment_method.detached"})
    /\ Move(w, [Ran(w, "mark") EXCEPT !.r1 = "rejected"])
    /\ UNCHANGED <<tables, ledger, Others>>

\* paymentMethod.delete(...).catch(() => {})
HandlePaymentMethodDetached(w) ==
    /\ Dispatch(w, {"payment_method.detached"})
    /\ pms' = Remove(pms, EvObj(dl[w].ev).id)
    /\ Move(w, Ran(w, "mark"))
    /\ UNCHANGED <<users, products, prices, subs, ledger, Others>>

\* default: throw new Error('unhandled event type')
UnhandledThrows(w) ==
    /\ At(w, "proc") /\ EvType(dl[w].ev) \notin HandledTypes
    /\ Move(w, Thrown(w))
    /\ UNCHANGED <<tables, ledger, Others>>

\* processEvent, default: the type is only logged.
Unhandled(w) ==
    /\ At(w, "proc") /\ EvType(dl[w].ev) \notin HandledTypes
    /\ Move(w, Ran(w, "mark"))
    /\ UNCHANGED <<tables, ledger, Others>>

Webhook(w) ==
    \/ HandleWebhook(w)
    \/ FindExisting(w)
    \/ StoreEvent(w)
    \/ SubscriptionFindUser(w)
    \/ SubscriptionFindPrice(w)
    \/ SubscriptionUpsert(w)
    \/ HandleSubscriptionDeleted(w)
    \/ InvoiceSucceededFind(w)
    \/ InvoiceSucceededUpdate(w)
    \/ HandleInvoicePaymentFailed(w)
    \/ HandleCustomerCreated(w)
    \/ HandleCustomerUpdated(w)
    \/ HandleProductUpdated(w)
    \/ HandleProductDeleted(w)
    \/ PriceFindProduct(w)
    \/ PriceWrite(w)
    \/ HandlePriceDeleted(w)
    \/ PaymentMethodFindUser(w)
    \/ PaymentMethodWrite(w)
    \/ HandlePaymentMethodDetached(w)
    \/ DetachRejected(w)
    \/ Unhandled(w)
    \/ ReconcilerThrows(w)
    \/ MarkProcessed(w)
    \/ Respond(w)

Next == Tick \/ \E w \in Workers : Webhook(w)

Spec == Init /\ [][Next]_vars

----------------------------------------------------------------------------
(* PaymentsService: the action service                                     *)

\* The ids a caller can pass.
UserArgs == {"u1", "u2", "u9"}
SubArgs == {"sub_1", "sub_2", "sub_9"}
PriceArgs == {"price_1", "price_2", "price_4", "price_9"}

\* cancel_at of the processor's answer to an at-period-end cancel, in seconds.
CancelAts == {3, 4}

\* The ids stripe.customers.create hands out, in order.
NewCustomerIds == <<"cus_2", "cus_3">>

ActSeedPrices ==
    SeedPrices @@ ("price_4" :> PriceRow("prod_1", "RECURRING", 40, "MONTH", 1, FALSE))

ActSeedSubs ==
    ("sub_1" :> SubRow("u1", "price_1", "ACTIVE", FALSE, NoDate, NoDate,
                       1 * MsPerSec, 3 * MsPerSec, NoDate, NoDate, NoDate)) @@
    ("sub_2" :> SubRow("u1", "price_1", "TRIALING", TRUE, 3 * MsPerSec, NoDate,
                       1 * MsPerSec, 3 * MsPerSec, NoDate, 1 * MsPerSec, 3 * MsPerSec))

InitAct ==
    /\ users = SeedUsers
    /\ products = SeedProducts
    /\ prices = ActSeedPrices
    /\ subs = ActSeedSubs
    /\ pms = EmptyTable
    /\ ledger = EmptyTable
    /\ now = 0
    /\ sent = {}
    /\ dl = [w \in Workers |-> Idle]
    /\ act = [c \in Callers |-> ActIdle]
    /\ sync = SyncIdle
    /\ stripe = StripeInit

Call(c, next) == act' = [act EXCEPT ![c] = next]

\* The operation throws: the caller gets the error.
Fail(c) == [act[c] EXCEPT !.pc = "done", !.result = "error"]

Succeed(c) == [act[c] EXCEPT !.pc = "done", !.result = "ok"]

Rest == <<ledger, now, sent, dl, sync>>

\* createCheckoutSession: user.findUnique, and the test of stripeCustomerId.
CheckoutFindUser(c) ==
    /\ act[c].pc = "idle"
    /\ \E userId \in UserArgs, priceId \in PriceArgs :
          LET a == [act[c] EXCEPT !.op = "checkout", !.user = userId, !.price = priceId] IN
          IF ~Has(users, userId)
          THEN Call(c, [a EXCEPT !.pc = "done", !.result = "error"])
          ELSE IF users[userId].stripeCustomerId = NULL
               THEN Call(c, [a EXCEPT !.pc = "co_create"])
               ELSE Call(c, [a EXCEPT !.pc = "co_price",
                                      !.cust = users[userId].stripeCustomerId])
    /\ UNCHANGED <<tables, stripe, Rest>>

\* createCheckoutSession: stripeService.createCustomer.
CheckoutCreateCustomer(c) ==
    /\ act[c].pc = "co_create"
    /\ \/ /\ stripe.customers < Len(NewCustomerIds)
          /\ stripe' = [stripe EXCEPT !.customers = @ + 1]
          /\ Call(c, [act[c] EXCEPT !.pc = "co_link",
                                    !.cust = NewCustomerIds[stripe.customers + 1]])
       \/ /\ stripe' = stripe
          /\ Call(c, Fail(c))
    /\ UNCHANGED <<tables, Rest>>

\* createCheckoutSession: user.update({ stripeCustomerId }).
CheckoutLinkCustomer(c) ==
    /\ act[c].pc = "co_link"
    /\ users' = [users EXCEPT ![act[c].user].stripeCustomerId = act[c].cust]
    /\ Call(c, [act[c] EXCEPT !.pc = "co_price", !.wrote = TRUE])
    /\ UNCHANGED <<products, prices, subs, pms, stripe, Rest>>

\* Only !price is tested.
UnknownPrice(priceId) == ~Has(prices, priceId)

\* !price || !price.active
InvalidOrInactivePrice(priceId) == ~Has(prices, priceId) \/ ~prices[priceId].active

\* createCheckoutSession: price.findUnique and the test on it.
CheckoutFindPrice(c) ==
    /\ act[c].pc = "co_price"
    /\ IF InvalidOrInactivePrice(act[c].price)
       THEN Call(c, Fail(c))
       ELSE Call(c, [act[c] EXCEPT !.pc = "co_session"])
    /\ UNCHANGED <<tables, stripe, Rest>>

\* createCheckoutSession: stripe.checkout.sessions.create.
CheckoutCreateSession(c) ==
    /\ act[c].pc = "co_session"
    /\ \/ /\ stripe' = [stripe EXCEPT !.sessions =
                            @ \cup {[customer |-> act[c].cust, price |-> act[c].price]}]
          /\ Call(c, Succeed(c))
       \/ /\ stripe' = stripe
          /\ Call(c, Fail(c))
    /\ UNCHANGED <<tables, Rest>>

\* createPortalSession: user.findUnique and the test on it.
PortalFindUser(c) ==
    /\ act[c].pc = "idle"
    /\ \E userId \in UserArgs :
          LET a == [act[c] EXCEPT !.op = "portal", !.user = userId] IN
          IF ~Has(users, userId) \/ users[userId].stripeCustomerId = NULL
          THEN Call(c, [a EXCEPT !.pc = "done", !.result = "error"])
          ELSE Call(c, [a EXCEPT !.pc = "po_session",
                                 !.cust = users[userId].stripeCustomerId])
    /\ UNCHANGED <<tables, stripe, Rest>>

\* createPortalSession: stripe.billingPortal.sessions.create.
PortalCreateSession(c) ==
    /\ act[c].pc = "po_session"
    /\ \/ Call(c, Succeed(c))
       \/ Call(c, Fail(c))
    /\ UNCHANGED <<tables, stripe, Rest>>

\* userId is not part of the where clause.
OwnSubscriptionOfAnyUser(subscriptionId, userId) == Has(subs, subscriptionId)

\* subscription.findFirst({ where: { id, userId } })
OwnSubscription(subscriptionId, userId) ==
    Has(subs, subscriptionId) /\ subs[subscriptionId].userId = userId

\* cancelSubscription: subscription.findFirst.
CancelFind(c) ==
    /\ act[c].pc = "idle"
    /\ \E userId \in UserArgs, subscriptionId \in SubArgs, immediate \in BOOLEAN :
          LET a == [act[c] EXCEPT !.op = "cancel", !.user = userId, !.sub = subscriptionId,
                                  !.immediate = immediate] IN
          IF OwnSubscription(subscriptionId, userId)
          THEN Call(c, [a EXCEPT !.pc = "ca_stripe", !.status = subs[subscriptionId].status])
          ELSE Call(c, [a EXCEPT !.pc = "done", !.result = "error"])
    /\ UNCHANGED <<tables, stripe, Rest>>

\* cancelSubscription: stripeService.cancelSubscription; the processor answers
\* with the subscription as cancelled now, or as ending at cancel_at.
CancelAtStripe(c) ==
    /\ act[c].pc = "ca_stripe"
    /\ \/ /\ act[c].immediate
          /\ Call(c, [act[c] EXCEPT !.pc = "ca_write", !.called = TRUE,
                                    !.cape = FALSE, !.cancelAt = NoDate])
       \/ /\ ~act[c].immediate
          /\ \E at \in CancelAts :
                Call(c, [act[c] EXCEPT !.pc = "ca_write", !.called = TRUE,
                                       !.cape = TRUE, !.cancelAt = at])
       \/ Call(c, [Fail(c) EXCEPT !.called = TRUE])
    /\ UNCHANGED <<tables, stripe, Rest>>

\* status: 'CANCELED', whatever immediate is.
CancelDataForced(row, a) ==
    [row EXCEPT !.cancelAtPeriodEnd = a.cape,
                !.cancelAt = ToDate(a.cancelAt),
                !.status = "CANCELED"]

\* cancelSubscription: the data of subscription.update; a.status is the status
\* that findFirst read, a.cape and a.cancelAt are the processor's answer.
CancelData(row, a) ==
    [row EXCEPT !.cancelAtPeriodEnd = a.cape,
                !.cancelAt = ToDate(a.cancelAt),
                !.status = IF a.immediate THEN "CANCELED" ELSE a.status]

\* cancelSubscription: subscription.update.
CancelWrite(c) ==
    /\ act[c].pc = "ca_write"
    /\ subs' = [subs EXCEPT ![act[c].sub] = CancelData(@, act[c])]
    /\ Call(c, [Succeed(c) EXCEPT !.wrote = TRUE])
    /\ UNCHANGED <<users, products, prices, pms, stripe, Rest>>

\* cancelAtPeriodEnd is not part of the where clause.
ReactivableAny(subscriptionId, userId) == OwnSubscription(subscriptionId, userId)

\* subscription.findFirst({ where: { id, userId, cancelAtPeriodEnd: true } })
Reactivable(subscriptionId, userId) ==
    OwnSubscription(subscriptionId, userId) /\ subs[subscriptionId].cancelAtPeriodEnd

\* reactivateSubscription: subscription.findFirst.
ReactivateFind(c) ==
    /\ act[c].pc = "idle"
    /\ \E userId \in UserArgs, subscriptionId \in SubArgs :
          LET a == [act[c] EXCEPT !.op = "reactivate", !.user = userId,
                                  !.sub = subscriptionId] IN
          IF Reactivable(subscriptionId, userId)
          THEN Call(c, [a EXCEPT !.pc = "re_stripe"])
          ELSE Call(c, [a EXCEPT !.pc = "done", !.result = "error"])
    /\ UNCHANGED <<tables, stripe, Rest>>

\* reactivateSubscription: stripeService.reactivateSubscription.
ReactivateAtStripe(c) ==
    /\ act[c].pc = "re_stripe"
    /\ \/ Call(c, [act[c] EXCEPT !.pc = "re_write", !.called = TRUE])
       \/ Call(c, [Fail(c) EXCEPT !.called = TRUE])
    /\ UNCHANGED <<tables, stripe, Rest>>

\* reactivateSubscription: subscription.update.
ReactivateWrite(c) ==
    /\ act[c].pc = "re_write"
    /\ subs' = [subs EXCEPT ![act[c].sub] =
                  [@ EXCEPT !.cancelAtPeriodEnd = FALSE, !.cancelAt = NoDate]]
    /\ Call(c, [Succeed(c) EXCEPT !.wrote = TRUE])
    /\ UNCHANGED <<users, products, prices, pms, stripe, Rest>>

\* changeSubscription: subscription.findFirst.
ChangeFind(c) ==
    /\ act[c].pc = "idle"
    /\ \E userId \in UserArgs, subscriptionId \in SubArgs, newPriceId \in PriceArgs :
          LET a == [act[c] EXCEPT !.op = "change", !.user = userId, !.sub = subscriptionId,
                                  !.price = newPriceId] IN
          IF OwnSubscription(subscriptionId, userId)
          THEN Call(c, [a EXCEPT !.pc = "ch_price"])
          ELSE Call(c, [a EXCEPT !.pc = "done", !.result = "error"])
    /\ UNCHANGED <<tables, stripe, Rest>>

\* changeSubscription: price.findUnique and the test on it.
ChangeFindPrice(c) ==
    /\ act[c].pc = "ch_price"
    /\ IF InvalidOrInactivePrice(act[c].price)
       THEN Call(c, Fail(c))
       ELSE Call(c, [act[c] EXCEPT !.pc = "ch_stripe"])
    /\ UNCHANGED <<tables, stripe, Rest>>

\* changeSubscription: stripeService.updateSubscription (retrieve, then update).
ChangeAtStripe(c) ==
    /\ act[c].pc = "ch_stripe"
    /\ \/ Call(c, [act[c] EXCEPT !.pc = "ch_write", !.called = TRUE])
       \/ Call(c, [Fail(c) EXCEPT !.called = TRUE])
    /\ UNCHANGED <<tables, stripe, Rest>>

\* changeSubscription: subscription.update({ priceId: newPrice.id }).
ChangeWrite(c) ==
    /\ act[c].pc = "ch_write"
    /\ subs' = [subs EXCEPT ![act[c].sub].priceId = act[c].price]
    /\ Call(c, [Succeed(c) EXCEPT !.wrote = TRUE])
    /\ UNCHANGED <<users, products, prices, pms, stripe, Rest>>

\* The controller answers the caller.
Return(c) ==
    /\ act[c].pc = "done"
    /\ Call(c, ActIdle)
    /\ UNCHANGED <<tables, stripe, Rest>>

Action(c) ==
    \/ CheckoutFindUser(c)
    \/ CheckoutCreateCustomer(c)
    \/ CheckoutLinkCustomer(c)
    \/ CheckoutFindPrice(c)
    \/ CheckoutCreateSession(c)
    \/ PortalFindUser(c)
    \/ PortalCreateSession(c)
    \/ CancelFind(c)
    \/ CancelAtStripe(c)
    \/ CancelWrite(c)
    \/ ReactivateFind(c)
    \/ ReactivateAtStripe(c)
    \/ ReactivateWrite(c)
    \/ ChangeFind(c)
    \/ ChangeFindPrice(c)
    \/ ChangeAtStripe(c)
    \/ ChangeWrite(c)
    \/ Return(c)

NextAct == Action("a1")

SpecAct == InitAct /\ [][NextAct]_vars

----------------------------------------------------------------------------
(* StripeService.syncProducts: the catalog sync                            *)

\* The order in which the processor lists its objects.
ListOrder == <<"prod_1", "price_1", "price_2", "price_3">>

\* The objects of one listing page.  (The processor's default page holds 10, its
\* largest 100; the catalog below is one price longer than a page.)
PageSize == 2

\* list(...).data of a call without starting_after: the first page.
FirstPage(ids) == SubSeq(ids, 1, IF Len(ids) < PageSize THEN Len(ids) ELSE PageSize)

IsActiveProduct(id) == Has(stripe.products, id) /\ stripe.products[id].active

\* stripe.products.list({ active: true }).data
ListActiveProducts ==
    LET ids == FirstPage(SelectSeq(ListOrder, IsActiveProduct)) IN
    [n \in 1..Len(ids) |-> stripe.products[ids[n]]]

\* stripe.prices.list({ product, active: true }).data
ListActivePrices(productId) ==
    LET Listed(id) == /\ Has(stripe.prices, id)
                      /\ stripe.prices[id].active
                      /\ stripe.prices[id].product = productId
        ids == FirstPage(SelectSeq(ListOrder, Listed)) IN
    [n \in 1..Len(ids) |-> stripe.prices[ids[n]]]

StripeCatalog ==
    [StripeInit EXCEPT
        !.products = ("prod_1" :> ProductObj("prod_1", "Pro", TRUE)),
        !.prices = ("price_1" :> PriceObj("price_1", "prod_1", "recurring",
                                          Recurring("month", 1), 10, TRUE)) @@
                   ("price_2" :> PriceObj("price_2", "prod_1", "recurring",
                                          Recurring("year", 1), 20, TRUE)) @@
                   ("price_3" :> PriceObj("price_3", "prod_1", "one_time",
                                          NoRecurring, 30, TRUE))]

InitSync ==
    /\ \E seeded \in BOOLEAN :
          /\ products = IF seeded THEN SeedProducts ELSE EmptyTable
          /\ prices = IF seeded THEN SeedPrices ELSE EmptyTable
    /\ users = SeedUsers
    /\ subs = EmptyTable
    /\ pms = EmptyTable
    /\ ledger = EmptyTable
    /\ now = 0
    /\ sent = {}
    /\ dl = [w \in Workers |-> Idle]
    /\ act = [c \in Callers |-> ActIdle]
    /\ sync = SyncIdle
    /\ stripe = StripeCatalog

SyncRest == <<users, subs, pms, ledger, now, sent, dl, act, stripe>>

\* The loop over products.data goes on at product i, or ends.
SyncAtProduct(sy, i) ==
    IF i <= Len(sy.products)
    THEN [sy EXCEPT !.pc = "product", !.i = i, !.j = 0, !.prices = <<>>]
    ELSE [sy EXCEPT !.pc = "done", !.i = 0, !.j = 0, !.prices = <<>>, !.products = <<>>]

\* The loop over prices.data goes on at price j, or the next product is taken.
SyncAtPrice(sy, j) ==
    IF j <= Len(sy.prices)
    THEN [sy EXCEPT !.pc = "price", !.j = j]
    ELSE SyncAtProduct(sy, sy.i + 1)

\* syncProducts: stripe.products.list.
SyncListProducts ==
    /\ sync.pc = "idle"
    /\ sync' = SyncAtProduct([sync EXCEPT !.products = ListActiveProducts], 1)
    /\ UNCHANGED <<products, prices, SyncRest>>

\* upsertProduct: product.upsert.
UpsertProduct(table, stripeProduct) ==
    Put(table, stripeProduct.id, ProductRow(stripeProduct.name, stripeProduct.active))

SyncUpsertProduct ==
    /\ sync.pc = "product"
    /\ products' = UpsertProduct(products, sync.products[sync.i])
    /\ sync' = [sync EXCEPT !.pc = "listprices"]
    /\ UNCHANGED <<prices, SyncRest>>

\* syncProducts: stripe.prices.list for the product.
SyncListPrices ==
    /\ sync.pc = "listprices"
    /\ sync' = SyncAtPrice([sync EXCEPT !.prices = ListActivePrices(sync.products[sync.i].id)], 1)
    /\ UNCHANGED <<products, prices, SyncRest>>

\* upsertPrice: product.findUnique, and the return when it is not found.
SyncFindProduct ==
    /\ sync.pc = "price"
    /\ LET product == FindProduct(sync.products[sync.i].id) IN
       IF product # NULL
       THEN sync' = [sync EXCEPT !.pc = "pricewrite", !.found = product]
       ELSE sync' = SyncAtPrice(sync, sync.j + 1)
    /\ UNCHANGED <<products, prices, SyncRest>>

\* upsertPrice: price.upsert; productId is written by the create branch only.
UpsertPrice(table, stripePrice, productId) ==
    LET priceType == IF stripePrice.type = "recurring" THEN "RECURRING" ELSE "ONE_TIME"
        r == stripePrice.recurring
        interval == IF r # NoRecurring
                    THEN CASE r.interval = "day" -> "DAY"
                           [] r.interval = "week" -> "WEEK"
                           [] r.interval = "month" -> "MONTH"
                           [] r.interval = "year" -> "YEAR"
                           [] OTHER -> NULL
                    ELSE NULL
        intervalCount == IF r # NoRecurring THEN r.interval_count ELSE NoDate
        row == PriceRow(productId, priceType, stripePrice.unit_amount, interval,
                        intervalCount, stripePrice.active) IN
    IF Has(table, stripePrice.id)
    THEN [table EXCEPT ![stripePrice.id] =
             [row EXCEPT !.productId = table[stripePrice.id].productId]]
    ELSE Put(table, stripePrice.id, row)

SyncUpsertPrice ==
    /\ sync.pc = "pricewrite"
    /\ prices' = UpsertPrice(prices, sync.prices[sync.j], sync.found)
    /\ sync' = SyncAtPrice([sync EXCEPT !.found = NULL], sync.j + 1)
    /\ UNCHANGED <<products, SyncRest>>

\* POST /payments/sync-products answers; the next run can start.
SyncReturn ==
    /\ sync.pc = "done"
    /\ sync' = SyncIdle
    /\ UNCHANGED <<products, prices, SyncRest>>

\* The processor deletes price_1: it is listed no more, and price.deleted is emitted.
StripeDeletePrice ==
    /\ Has(stripe.prices, "price_1")
    /\ stripe' = [stripe EXCEPT !.prices = Remove(@, "price_1")]
    /\ sent' = sent \cup {"evt_price1del"}
    /\ UNCHANGED <<tables, ledger, now, dl, act, sync>>

CatalogWebhook(w) ==
    \/ HandleWebhook(w)
    \/ FindExisting(w)
    \/ StoreEvent(w)
    \/ HandlePriceDeleted(w)
    \/ ReconcilerThrows(w)
    \/ MarkProcessed(w)
    \/ Respond(w)

NextSync ==
    \/ SyncListProducts
    \/ SyncUpsertProduct
    \/ SyncListPrices
    \/ SyncFindProduct
    \/ SyncUpsertPrice
    \/ SyncReturn
    \/ StripeDeletePrice
    \/ \E w \in Workers : CatalogWebhook(w)

SpecSync == InitSync /\ [][NextSync]_vars

----------------------------------------------------------------------------
(* SubscriptionGuard and PaymentsService.hasActiveSubscription             *)

\* The subscriptions a guarded request can meet: sub_1 of either user, in any
\* status, ending after one or two seconds; sub_2 of u1, ending after one.
Statuses ==
    {"INCOMPLETE", "INCOMPLETE_EXPIRED", "TRIALING", "ACTIVE", "PAST_DUE", "CANCELED",
     "UNPAID", "PAUSED"}

GuardSubs(owner, status, cpe, status2) ==
    ("sub_1" :> SubRow(owner, "price_1", status, FALSE, NoDate, NoDate,
                       0, cpe * MsPerSec, NoDate, NoDate, NoDate)) @@
    ("sub_2" :> SubRow("u1", "price_1", status2, FALSE, NoDate, NoDate,
                       0, 1 * MsPerSec, NoDate, NoDate, NoDate))

InitGuard ==
    /\ \E owner \in {"u1", "u2"}, status \in Statuses, cpe \in {1, 2},
          status2 \in {"TRIALING", "CANCELED"} :
          subs = GuardSubs(owner, status, cpe, status2)
    /\ users = SeedUsers
    /\ products = SeedProducts
    /\ prices = SeedPrices
    /\ pms = EmptyTable
    /\ ledger = EmptyTable
    /\ now = 0
    /\ sent = {}
    /\ dl = [w \in Workers |-> Idle]
    /\ act = [c \in Callers |-> ActIdle]
    /\ sync = SyncIdle
    /\ stripe = StripeInit

\* currentPeriodEnd: { gte: new Date() }
HasActiveSubscriptionInclusive(userId) ==
    \E s \in DOMAIN subs :
        /\ subs[s].userId = userId
        /\ subs[s].status \in {"ACTIVE", "TRIALING"}
        /\ subs[s].currentPeriodEnd >= NowMs

\* hasActiveSubscription: !!subscription.findFirst({ userId, status in
\* [ACTIVE, TRIALING], currentPeriodEnd: { gt: new Date() } })
HasActiveSubscription(userId) ==
    \E s \in DOMAIN subs :
        /\ subs[s].userId = userId
        /\ subs[s].status \in {"ACTIVE", "TRIALING"}
        /\ subs[s].currentPeriodEnd > NowMs

\* canActivate: request.user, and the ForbiddenException when there is none.
CanActivate(c) ==
    /\ act[c].pc = "idle"
    /\ \E user \in UserArgs \cup {NULL} :
          LET a == [act[c] EXCEPT !.op = "guard", !.user = user] IN
          IF user = NULL
          THEN Call(c, [a EXCEPT !.pc = "done", !.result = "forbidden"])
          ELSE Call(c, [a EXCEPT !.pc = "gd_find"])
    /\ UNCHANGED <<tables, stripe, Rest>>

\* canActivate: await hasActiveSubscription(user.id), and the answer.
GuardDecide(c) ==
    /\ act[c].pc = "gd_find"
    /\ IF HasActiveSubscription(act[c].user)
       THEN Call(c, [act[c] EXCEPT !.pc = "done", !.result = "admitted"])
       ELSE Call(c, [act[c] EXCEPT !.pc = "done", !.result = "forbidden"])
    /\ UNCHANGED <<tables, stripe, Rest>>

NextGuard ==
    \/ Tick
    \/ CanActivate("a1")
    \/ GuardDecide("a1")
    \/ Return("a1")

SpecGuard == InitGuard /\ [][NextGuard]_vars

----------------------------------------------------------------------------
(* The two upsert paths of the catalog, applied to the same payloads       *)

\* Product and price objects of the processor: an inactive product, a renamed
\* one, every interval, a one-time price, an interval the switch does not
\* list, a price of a product that may be unknown, a price moved to another
\* product, a one-time price that carries a recurring object.
ProductPayloads ==
    {ProductObj("prod_1", "Pro", TRUE), ProductObj("prod_1", "Pro+", FALSE),
     ProductObj("prod_2", "Team", TRUE)}

PricePayloads ==
    {PriceObj("price_1", "prod_1", "recurring", Recurring("month", 1), 10, TRUE),
     PriceObj("price_1", "prod_2", "recurring", Recurring("week", 2), 15, FALSE),
     PriceObj("price_2", "prod_1", "one_time", NoRecurring, 20, TRUE),
     PriceObj("price_3", "prod_2", "recurring", Recurring("day", 3), 30, TRUE),
     PriceObj("price_3", "prod_2", "recurring", Recurring("year", 1), 30, FALSE),
     PriceObj("price_5", "prod_1", "recurring", Recurring("quarter", 1), 50, TRUE),
     PriceObj("price_6", "prod_1", "one_time", Recurring("month", 1), 60, TRUE)}

\* handlePriceUpdated as a whole: the prices table it leaves.
HandlePriceUpdated(table, price) ==
    LET product == FindProduct(price.product) IN
    IF ProductResolved(product) THEN PriceUpsert(table, price, product) ELSE table

\* upsertPrice as a whole: the prices table it leaves.
UpsertPriceOrSkip(table, stripePrice, productStripeId) ==
    LET product == FindProduct(productStripeId) IN
    IF product # NULL THEN UpsertPrice(table, stripePrice, product) ELSE table

InitCatalog ==
    /\ \E seeded \in BOOLEAN :
          /\ products = IF seeded THEN SeedProducts ELSE EmptyTable
          /\ prices = IF seeded THEN SeedPrices ELSE EmptyTable
    /\ users = SeedUsers
    /\ subs = EmptyTable
    /\ pms = EmptyTable
    /\ ledger = EmptyTable
    /\ now = 0
    /\ sent = {}
    /\ dl = [w \in Workers |-> Idle]
    /\ act = [c \in Callers |-> ActIdle]
    /\ sync = SyncIdle
    /\ stripe = StripeInit

\* syncProducts reaches the product: upsertProduct.
ApplySyncProduct ==
    /\ \E p \in ProductPayloads : products' = UpsertProduct(products, p)
    /\ UNCHANGED <<prices, SyncRest, sync>>

\* syncProducts reaches the price, listed for its product: upsertPrice.
ApplySyncPrice ==
    /\ \E p \in PricePayloads : prices' = UpsertPriceOrSkip(prices, p, p.product)
    /\ UNCHANGED <<products, SyncRest, sync>>

\* product.created / product.updated is processed.
ApplyWebhookProduct ==
    /\ \E p \in ProductPayloads : products' = ProductUpsert(products, p)
    /\ UNCHANGED <<prices, SyncRest, sync>>

\* price.created / price.updated is processed.
ApplyWebhookPrice ==
    /\ \E p \in PricePayloads : prices' = HandlePriceUpdated(prices, p)
    /\ UNCHANGED <<products, SyncRest, sync>>

NextCatalog ==
    \/ ApplySyncProduct
    \/ ApplySyncPrice
    \/ ApplyWebhookProduct
    \/ ApplyWebhookPrice

SpecCatalog == InitCatalog /\ [][NextCatalog]_vars

----------------------------------------------------------------------------
(* Subscription events of every status                                     *)

InitStatus ==
    /\ \E e \in DOMAIN StatusEvents : sent = {e}
    /\ products = SeedProducts
    /\ prices = SeedPrices
    /\ subs = SeedSubs
    /\ users = SeedUsers
    /\ pms = EmptyTable
    /\ ledger = EmptyTable
    /\ now = 0
    /\ dl = [w \in Workers |-> Idle]
    /\ act = [c \in Callers |-> ActIdle]
    /\ sync = SyncIdle
    /\ stripe = StripeInit

SubscriptionWebhook(w) ==
    \/ HandleWebhook(w)
    \/ FindExisting(w)
    \/ StoreEvent(w)
    \/ SubscriptionFindUser(w)
    \/ SubscriptionFindPrice(w)
    \/ SubscriptionUpsert(w)
    \/ ReconcilerThrows(w)
    \/ MarkProcessed(w)
    \/ Respond(w)

NextStatus == \E w \in Workers : SubscriptionWebhook(w)

SpecStatus == InitStatus /\ [][NextStatus]_vars

----------------------------------------------------------------------------
(* Redelivery until success                                                *)

\* The events of the runs below; the reconciler of each can succeed.
LiveEvents == {"evt_sub1upd", "evt_sub1del", "evt_price1", "evt_prod1"}

InitLive ==
    /\ \E sc \in {x \in Scenarios : x.events \subseteq LiveEvents} :
          /\ products = sc.products
          /\ prices = sc.prices
          /\ subs = sc.subs
          /\ sent = sc.events
    /\ users = SeedUsers
    /\ pms = EmptyTable
    /\ ledger = EmptyTable
    /\ now = 0
    /\ dl = [w \in Workers |-> Idle]
    /\ act = [c \in Callers |-> ActIdle]
    /\ sync = SyncIdle
    /\ stripe = StripeInit

\* Storage rejects calls of the reconcilers only until the clock has run out.
ThrowsWhileFaulty(w) == now < MaxTime /\ ReconcilerThrows(w)

\* The steps of a request that the server takes by itself once it is accepted.
Progress(w) ==
    \/ FindExisting(w)
    \/ StoreEvent(w)
    \/ SubscriptionFindUser(w)
    \/ SubscriptionFindPrice(w)
    \/ SubscriptionUpsert(w)
    \/ HandleSubscriptionDeleted(w)
    \/ HandleProductUpdated(w)
    \/ PriceFindProduct(w)
    \/ PriceWrite(w)
    \/ MarkProcessed(w)
    \/ Respond(w)

\* The processor delivers event e, correctly signed, to worker w.
Deliver(w, e) == HandleWebhook(w) /\ dl'[w].ev = e

NextLive ==
    \/ Tick
    \/ \E w \in Workers : HandleWebhook(w)
    \/ \E w \in Workers : Progress(w)
    \/ \E w \in Workers : ThrowsWhileFaulty(w)

\* Time passes, an accepted request runs to its answer, and the processor
\* delivers each of its events again and again.
Fairness ==
    /\ WF_vars(Tick)
    /\ \A w \in Workers : WF_vars(Progress(w))
    /\ \A e \in LiveEvents : SF_vars(\E w \in Workers : Deliver(w, e))

SpecLive == InitLive /\ [][NextLive]_vars /\ Fairness

----------------------------------------------------------------------------
(* cancelSubscription beside the webhooks of the same subscription         *)

InitRace ==
    /\ \E e \in {"evt_inv3fail", "evt_sub1del", "evt_sub1upd"} : sent = {e}
    /\ users = SeedUsers
    /\ products = SeedProducts
    /\ prices = ActSeedPrices
    /\ subs = ActSeedSubs
    /\ pms = EmptyTable
    /\ ledger = EmptyTable
    /\ now = 0
    /\ dl = [w \in Workers |-> Idle]
    /\ act = [c \in Callers |-> ActIdle]
    /\ sync = SyncIdle
    /\ stripe = StripeInit

NextRace ==
    \/ CancelFind("a1")
    \/ CancelAtStripe("a1")
    \/ CancelWrite("a1")
    \/ Return("a1")
    \/ \E w \in {"w1"} :
          \/ HandleWebhook(w)
          \/ FindExisting(w)
          \/ StoreEvent(w)
          \/ SubscriptionFindUser(w)
          \/ SubscriptionFindPrice(w)
          \/ SubscriptionUpsert(w)
          \/ HandleSubscriptionDeleted(w)
          \/ HandleInvoicePaymentFailed(w)
          \/ ReconcilerThrows(w)
          \/ MarkProcessed(w)
          \/ Respond(w)

SpecRace == InitRace /\ [][NextRace]_vars

----------------------------------------------------------------------------
(* Concurrent calls of createCheckoutSession                               *)

NextCheckout ==
    \E c \in Callers :
        \/ CheckoutFindUser(c)
        \/ CheckoutCreateCustomer(c)
        \/ CheckoutLinkCustomer(c)
        \/ CheckoutFindPrice(c)
        \/ CheckoutCreateSession(c)
        \/ Return(c)

SpecCheckout == InitAct /\ [][NextCheckout]_vars

----------------------------------------------------------------------------
(* Claims                                                                  *)

\* The step of worker w, from pc p.
Steps(w, p) == dl[w].pc = p /\ dl'[w] # dl[w]

InReconciler(w) == dl[w].pc \in {"read2", "write", "mark"} /\ dl[w].ran

\* C1: claiming an event is atomic: of two deliveries of one event id that are
\* handled at the same time, at most one executes processEvent.
C1_AtMostOneReconciler ==
    \A w1, w2 \in Workers :
        (w1 # w2 /\ dl[w1].ev = dl[w2].ev) => ~(InReconciler(w1) /\ InReconciler(w2))

\* C2: a delivery that finds its event's ledger record processed runs no
\* reconciler, answers success and changes neither the tables nor the ledger.
C2_RedeliveryIsNoOp ==
    [][\A w \in Workers :
          (/\ Steps(w, "check")
           /\ Has(ledger, dl[w].ev)
           /\ ledger[dl[w].ev].processed)
          => (/\ dl'[w].pc = "done"
              /\ dl'[w].resp = 200
              /\ ~dl'[w].ran
              /\ tables' = tables
              /\ ledger' = ledger)]_vars

C2_Witness ==
    \E w \in Workers :
        /\ dl[w].pc = "done" /\ dl[w].resp = 200 /\ ~dl[w].ran /\ dl[w].touched
        /\ EvType(dl[w].ev) = "customer.subscription.deleted"
        /\ ledger[dl[w].ev].processed

IsPriceEvent(e) == e # NULL /\ EvType(e) \in {"price.created", "price.updated"}

\* C3: once the product of a price event is known, an acknowledged redelivery of
\* that event leaves the Price row present and linked to the product.
C3_RedeliveryHeals ==
    [][\A w \in Workers :
          (/\ Steps(w, "check")
           /\ dl'[w].resp = 200
           /\ IsPriceEvent(dl[w].ev)
           /\ Has(products, EvObj(dl[w].ev).product))
          => (/\ Has(prices', EvObj(dl[w].ev).id)
              /\ prices'[EvObj(dl[w].ev).id].productId = EvObj(dl[w].ev).product)]_vars

\* C4: a reconciler that throws leaves the ledger as it is and is answered 400;
\* a delivery that finds the record unprocessed stores it and runs the reconciler.
C4_ThrowLeavesUnprocessed ==
    [][\A w \in Workers :
          /\ (dl'[w].threw /\ ~dl[w].threw)
                => (dl'[w].pc = "done" /\ dl'[w].resp = 400 /\ ledger' = ledger)
          /\ (Steps(w, "check") /\ ~(Has(ledger, dl[w].ev) /\ ledger[dl[w].ev].processed))
                => dl'[w].pc = "store"
          /\ Steps(w, "store") => dl'[w].pc = "proc"
          /\ Steps(w, "proc") => dl'[w].ran]_vars

C4_Witness ==
    \E w1, w2 \in Workers :
        /\ dl[w1].pc = "done" /\ dl[w1].threw /\ dl[w1].resp = 400
        /\ dl[w2].ev = dl[w1].ev /\ dl[w2].pc = "mark" /\ dl[w2].ran
        /\ ~ledger[dl[w1].ev].processed

\* C5: a request without signature, without body or with a signature that does
\* not verify is answered 400 before the service is called: no ledger access
\* and no change of a table.
C5_VerifyBeforeLedger ==
    /\ [](\A w \in Workers :
            dl[w].req \in {"nosig", "nobody", "badsig"}
            => (dl[w].pc = "done" /\ dl[w].resp = 400 /\ ~dl[w].touched /\ dl[w].ev = NULL))
    /\ [][\A w \in Workers :
            (Steps(w, "idle") /\ dl'[w].req # "ok")
            => (tables' = tables /\ ledger' = ledger)]_vars

C5_Witness ==
    \E w \in Workers : dl[w].req = "badsig" /\ dl[w].pc = "done" /\ dl[w].resp = 400

\* C6: after a subscription created/updated event is processed, the row holds
\* the values of the payload, the price reference included, whether or not the
\* row existed before.
C6_UpsertWritesAllFields ==
    [][\A w \in Workers :
          (Steps(w, "write") /\ IsSubscriptionUpsert(w) /\ dl'[w].pc = "mark")
          => LET s == EvObj(dl[w].ev)
                 row == subs'[s.id] IN
             /\ row.status = MapSubscriptionStatus(s.status)
             /\ row.cancelAtPeriodEnd = s.cancel_at_period_end
             /\ row.cancelAt = ToDate(s.cancel_at)
             /\ row.canceledAt = ToDate(s.canceled_at)
             /\ row.currentPeriodStart = ToDateStrict(s.current_period_start)
             /\ row.currentPeriodEnd = ToDateStrict(s.current_period_end)
             /\ row.trialStart = ToDate(s.trial_start)
             /\ row.trialEnd = ToDate(s.trial_end)
             /\ row.endedAt = ToDate(s.ended_at)
             /\ row.priceId = s.price]_vars

NoDangling ==
    /\ \A p \in DOMAIN prices : Has(products, prices[p].productId)
    /\ \A s \in DOMAIN subs : Has(users, subs[s].userId) /\ Has(prices, subs[s].priceId)
    /\ \A m \in DOMAIN pms : Has(users, pms[m].userId)

\* The reconciler of worker w is at the lookup of a parent that is not there.
Unresolved(w) ==
    LET o == EvObj(dl[w].ev) IN
    \/ /\ At(w, "proc") /\ IsPriceEvent(dl[w].ev)
       /\ ~Has(products, o.product)
    \/ /\ At(w, "proc") /\ IsSubscriptionUpsert(w)
       /\ \A u \in DOMAIN users : users[u].stripeCustomerId # o.customer
    \/ /\ At(w, "read2")
       /\ (o.price = NULL \/ ~Has(prices, o.price))
    \/ /\ At(w, "proc") /\ EvType(dl[w].ev) = "payment_method.attached"
       /\ \A u \in DOMAIN users : users[u].stripeCustomerId # o.customer

\* C7: every Price row references a Product row, every Subscription row a user
\* and a Price row, every PaymentMethod row a user; an upsert whose parent is
\* not found returns without a write and without an error.
C7_NoDanglingReference ==
    /\ []NoDangling
    /\ [][\A w \in Workers :
            (Unresolved(w) /\ dl'[w] # dl[w] /\ dl'[w].pc # "done")
            => (dl'[w].pc = "mark" /\ tables' = tables)]_vars

C7_Witness ==
    \E w \in Workers :
        /\ dl[w].pc = "done" /\ dl[w].resp = 200 /\ dl[w].ran
        /\ dl[w].ev = "evt_sub5noprice" /\ ~Has(subs, "sub_5")
        /\ subs = SeedSubs

\* C8: customer.subscription.deleted sets status CANCELED and stamps endedAt on
\* the row of that subscription, removes no row and changes no other row; for an
\* unknown subscription nothing changes; a redelivery after the event is
\* processed leaves the subscriptions as they are.
C8_Terminate ==
    [][\A w \in Workers :
          (EvType(dl[w].ev) = "customer.subscription.deleted")
          => LET id == EvObj(dl[w].ev).id IN
             /\ (Steps(w, "proc") /\ dl'[w].pc = "mark")
                   => /\ DOMAIN subs' = DOMAIN subs
                      /\ \A x \in DOMAIN subs \ {id} : subs'[x] = subs[x]
                      /\ Has(subs, id)
                            => /\ subs'[id].status = "CANCELED"
                               /\ subs'[id].endedAt = NowMs
                               /\ subs'[id].endedAt # NoDate
                               /\ [subs'[id] EXCEPT !.status = subs[id].status,
                                                    !.endedAt = subs[id].endedAt] = subs[id]
             /\ (Steps(w, "check") /\ Has(ledger, dl[w].ev) /\ ledger[dl[w].ev].processed)
                   => (subs' = subs /\ dl'[w].pc = "done")]_vars

C8_Witness ==
    \E w \in Workers :
        /\ dl[w].pc = "done" /\ dl[w].resp = 200 /\ ~dl[w].ran
        /\ dl[w].ev = "evt_sub1del"
        /\ subs["sub_1"].status = "CANCELED"
        /\ subs["sub_1"].endedAt # NoDate
        /\ subs["sub_1"].endedAt < NowMs
        /\ subs["sub_2"] = SeedSubs["sub_2"]

\* C9: an action-service call that returns an error has committed no local write.
C9_ErrorMeansNoWrite ==
    \A c \in Callers : act[c].result = "error" => ~act[c].wrote

\* C10: a catalog sync interleaved with webhooks ends as some sequential order
\* of the two would: once price.deleted is processed and the sync is over,
\* the deleted price is not active.
C10_SyncNeverReactivates ==
    (/\ sync.pc \in {"idle", "done"}
     /\ \A w \in Workers : dl[w].pc \in {"idle", "done"}
     /\ Has(ledger, "evt_price1del") /\ ledger["evt_price1del"].processed
     /\ Has(prices, "price_1"))
    => ~prices["price_1"].active

\* C11: hasActiveSubscription(user) is true exactly when a subscription of the
\* user is ACTIVE or TRIALING with currentPeriodEnd strictly after now; the
\* guard admits exactly then, and answers forbidden otherwise (no user included).
C11_EntitlementOracle ==
    [][\A c \in Callers :
          /\ (act[c].pc = "gd_find" /\ act'[c] # act[c])
                => /\ act'[c].pc = "done"
                   /\ act'[c].result \in {"admitted", "forbidden"}
                   /\ act'[c].result = "admitted"
                         <=> \E s \in DOMAIN subs :
                                /\ subs[s].userId = act[c].user
                                /\ subs[s].status \in {"ACTIVE", "TRIALING"}
                                /\ now * (MsPerSec \div 2) < subs[s].currentPeriodEnd
          /\ (act[c].pc = "idle" /\ act'[c].op = "guard" /\ act'[c].user = NULL)
                => (act'[c].pc = "done" /\ act'[c].result = "forbidden")]_vars

\* The period of the user's only entitling subscription ends exactly now.
C11_Witness ==
    /\ act["a1"].op = "guard" /\ act["a1"].pc = "done" /\ act["a1"].result = "forbidden"
    /\ act["a1"].user = "u2"
    /\ subs["sub_1"].userId = "u2" /\ subs["sub_1"].status = "ACTIVE"
    /\ subs["sub_1"].currentPeriodEnd = NowMs

\* C12: reactivate of a subscription that is not the caller's or has
\* cancelAtPeriodEnd = false is rejected with no processor call and no local
\* change; with cancelAtPeriodEnd = true and the processor call done it succeeds
\* and leaves the row with cancelAtPeriodEnd = false and cancelAt = null, the
\* other columns and rows as they were.
C12_Reactivate ==
    [][\A c \in Callers :
          LET id == act'[c].sub IN
          /\ (act[c].pc = "idle" /\ act'[c].op = "reactivate")
                => /\ tables' = tables
                   /\ IF /\ Has(subs, id)
                         /\ subs[id].userId = act'[c].user
                         /\ subs[id].cancelAtPeriodEnd
                      THEN act'[c].pc = "re_stripe"
                      ELSE /\ act'[c].pc = "done" /\ act'[c].result = "error"
                           /\ ~act'[c].called /\ ~act'[c].wrote
          /\ (act[c].pc = "re_stripe" /\ act'[c] # act[c])
                => /\ tables' = tables
                   /\ act'[c].called
                   /\ \/ act'[c].pc = "re_write"
                      \/ act'[c].pc = "done" /\ act'[c].result = "error"
          /\ (act[c].pc = "re_write" /\ act'[c] # act[c])
                => /\ act'[c].pc = "done" /\ act'[c].result = "ok"
                   /\ DOMAIN subs' = DOMAIN subs
                   /\ ~subs'[id].cancelAtPeriodEnd
                   /\ subs'[id].cancelAt = NoDate
                   /\ \A x \in DOMAIN subs \ {id} : subs'[x] = subs[x]
                   /\ [subs'[id] EXCEPT !.cancelAtPeriodEnd = subs[id].cancelAtPeriodEnd,
                                        !.cancelAt = subs[id].cancelAt] = subs[id]]_vars

\* A second reactivate of sub_2, after the first one cleared the flag, is rejected.
C12_Witness ==
    /\ act["a1"].op = "reactivate" /\ act["a1"].pc = "done" /\ act["a1"].result = "error"
    /\ act["a1"].user = "u1" /\ act["a1"].sub = "sub_2" /\ ~act["a1"].called
    /\ subs["sub_2"] = [ActSeedSubs["sub_2"] EXCEPT !.cancelAtPeriodEnd = FALSE,
                                                    !.cancelAt = NoDate]

\* C13: createCheckoutSession and changeSubscription with a price that is
\* unknown locally or inactive throw at the price test: no checkout session is
\* created and no subscription update is sent to the processor.
C13_PriceMustBeActive ==
    /\ [](\A se \in stripe.sessions : Has(prices, se.price) /\ prices[se.price].active)
    /\ [](\A c \in Callers :
            (act[c].op = "change" /\ act[c].called)
            => (Has(prices, act[c].price) /\ prices[act[c].price].active))
    /\ [][\A c \in Callers :
            (/\ act[c].pc \in {"co_price", "ch_price"}
             /\ act'[c] # act[c]
             /\ (~Has(prices, act[c].price) \/ ~prices[act[c].price].active))
            => /\ act'[c].pc = "done" /\ act'[c].result = "error"
               /\ ~act'[c].called
               /\ stripe' = stripe
               /\ subs' = subs /\ prices' = prices]_vars

\* Checkout of a linked user with the inactive price_4 has failed; a change of
\* sub_1 to an active price went through before.
C13_Witness ==
    /\ act["a1"].op = "checkout" /\ act["a1"].pc = "done" /\ act["a1"].result = "error"
    /\ act["a1"].user = "u1" /\ act["a1"].price = "price_4"
    /\ stripe.sessions = {}
    /\ subs["sub_1"].priceId = "price_2"

\* C14: cancel, reactivate and change call the processor before they write: a
\* subscription row changes only in the write step that follows an answered
\* call, a failed call ends the operation with the rows as they were; an
\* immediate cancel writes status CANCELED, an at-period-end cancel keeps the
\* status and writes cancelAtPeriodEnd and cancelAt of the processor's answer.
C14_ExternalCallFirst ==
    /\ [](\A c \in Callers :
            (act[c].op \in {"cancel", "reactivate", "change"} /\ act[c].wrote)
            => (act[c].called /\ act[c].result = "ok"))
    /\ [][(subs' # subs)
            => \E c \in Callers :
                  /\ act[c].pc \in {"ca_write", "re_write", "ch_write"}
                  /\ act[c].called /\ act'[c] # act[c]]_vars
    /\ [][\A c \in Callers :
            LET id == act[c].sub IN
            /\ (act[c].pc \in {"ca_stripe", "re_stripe", "ch_stripe"} /\ act'[c] # act[c])
                  => /\ subs' = subs
                     /\ act'[c].called
                     /\ act'[c].result = "error" => act'[c].pc = "done"
            /\ (act[c].pc = "ca_write" /\ act'[c] # act[c])
                  => /\ act'[c].result = "ok"
                     /\ subs'[id].status = IF act[c].immediate THEN "CANCELED"
                                           ELSE subs[id].status
                     /\ subs'[id].cancelAtPeriodEnd = act[c].cape
                     /\ subs'[id].cancelAt = IF act[c].cancelAt = NoDate THEN NoDate
                                             ELSE act[c].cancelAt * MsPerSec
                     /\ \A x \in DOMAIN subs \ {id} : subs'[x] = subs[x]]_vars

\* An at-period-end cancel of the trialing sub_2 was answered with cancel_at = 4.
C14_Witness ==
    /\ act["a1"].op = "cancel" /\ act["a1"].pc = "done" /\ act["a1"].result = "ok"
    /\ ~act["a1"].immediate /\ act["a1"].sub = "sub_2"
    /\ subs["sub_2"].status = "TRIALING"
    /\ subs["sub_2"].cancelAtPeriodEnd
    /\ subs["sub_2"].cancelAt = 4 * MsPerSec

\* C15: a webhook never changes a non-null stripeCustomerId; a user's
\* stripeCustomerId changes only from null, by a customer.created event with the
\* user's email, to the event's customer id; no two users hold the same id.
C15_LinkageNeverOverwritten ==
    /\ [](\A u, v \in DOMAIN users :
            (u # v /\ users[u].stripeCustomerId # NULL)
            => users[u].stripeCustomerId # users[v].stripeCustomerId)
    /\ [][/\ DOMAIN users' = DOMAIN users
          /\ \A u \in DOMAIN users :
                /\ users[u].stripeCustomerId # NULL
                      => users'[u].stripeCustomerId = users[u].stripeCustomerId
                /\ users'[u].stripeCustomerId # users[u].stripeCustomerId
                      => \E w \in Workers :
                            /\ Steps(w, "proc")
                            /\ EvType(dl[w].ev) = "customer.created"
                            /\ EvObj(dl[w].ev).email = users[u].email
                            /\ users'[u].stripeCustomerId = EvObj(dl[w].ev).id
          /\ \A w \in Workers :
                (Steps(w, "proc") /\ EvType(dl[w].ev) = "customer.updated")
                => users' = users]_vars

\* customer.created for cus_3 with the email of u1, who is linked to cus_1, and
\* customer.created for cus_2 with the email of the unlinked u2 are both processed.
C15_Witness ==
    /\ Has(ledger, "evt_cus3") /\ ledger["evt_cus3"].processed
    /\ Has(ledger, "evt_cus2") /\ ledger["evt_cus2"].processed
    /\ users["u1"].stripeCustomerId = "cus_1"
    /\ users["u2"].stripeCustomerId = "cus_2"

\* C16: on every catalog state and for every product or price payload, the
\* table that catalog sync's upsert leaves equals the table that the webhook
\* reconciler leaves, the skip for an unknown product included.
C16_SyncEqualsWebhook ==
    /\ \A p \in ProductPayloads : UpsertProduct(products, p) = ProductUpsert(products, p)
    /\ \A p \in PricePayloads :
          UpsertPriceOrSkip(prices, p, p.product) = HandlePriceUpdated(prices, p)

\* price_1 was created under prod_1 and updated by the payload that names
\* prod_2; price_5 was written with the interval the switch does not list.
C16_Witness ==
    /\ Has(prices, "price_1") /\ prices["price_1"].interval = "WEEK"
    /\ prices["price_1"].productId = "prod_1"
    /\ Has(products, "prod_2") /\ ~products["prod_1"].active
    /\ Has(prices, "price_5") /\ prices["price_5"].interval = NULL

\* C17: when a catalog sync has completed, every active product of the
\* processor's catalog and every active price of such a product has a local row
\* with the processor's values.
C17_SyncCoversCatalog ==
    (sync.pc = "done")
    => /\ \A p \in DOMAIN stripe.products :
             stripe.products[p].active
             => (Has(products, p)
                 /\ products[p] = ProductRow(stripe.products[p].name, TRUE))
       /\ \A id \in DOMAIN stripe.prices :
             LET o == stripe.prices[id] IN
             (o.active /\ IsActiveProduct(o.product))
             => (Has(prices, id)
                 /\ prices[id] = UpsertPrice(EmptyTable, o, o.product)[id])

\* C18: for the known customer cus_1, once customer.subscription.created of
\* sub_3 and payment_method.attached of pm_1 are both processed, in whichever
\* order and however interleaved, the subscriptions and the payment methods
\* are the same: the seeded rows, sub_3 and pm_1 as their payloads say.
C18_OrderInsensitive ==
    (/\ Has(ledger, "evt_sub3new") /\ ledger["evt_sub3new"].processed
     /\ Has(ledger, "evt_pm1") /\ ledger["evt_pm1"].processed)
    => /\ subs = Put(SeedSubs, "sub_3",
                     SubRow("u1", "price_1", "TRIALING", FALSE, NoDate, NoDate,
                            1 * MsPerSec, 3 * MsPerSec, NoDate, 1 * MsPerSec, 2 * MsPerSec))
       /\ pms = ("pm_1" :> [userId |-> "u1", type |-> "card", brand |-> "visa",
                            last4 |-> "4242", expiryMonth |-> 12, expiryYear |-> 30,
                            isDefault |-> FALSE])

\* Both are processed; the delivery of the subscription event has just been
\* answered and no delivery of the payment-method event is in flight.
C18_Witness ==
    /\ Has(ledger, "evt_sub3new") /\ ledger["evt_sub3new"].processed
    /\ Has(ledger, "evt_pm1") /\ ledger["evt_pm1"].processed
    /\ \E w \in Workers :
          /\ dl[w].ev = "evt_sub3new" /\ dl[w].pc = "done" /\ dl[w].ran /\ dl[w].resp = 200
          /\ dl[w].r2 = "price_1"
    /\ \A w \in Workers : dl[w].ev # "evt_pm1"

\* The local status of the same name, INCOMPLETE for a value outside the
\* processor's vocabulary.
SameNameOrDefault(st) ==
    LET Local == ("incomplete" :> "INCOMPLETE") @@
                 ("incomplete_expired" :> "INCOMPLETE_EXPIRED") @@
                 ("trialing" :> "TRIALING") @@ ("active" :> "ACTIVE") @@
                 ("past_due" :> "PAST_DUE") @@ ("canceled" :> "CANCELED") @@
                 ("unpaid" :> "UNPAID") @@ ("paused" :> "PAUSED") IN
    IF st \in DOMAIN Local THEN Local[st] ELSE "INCOMPLETE"

\* C19: each of the eight processor statuses maps to the local status of the
\* same name, any other value maps to INCOMPLETE, and the row written for a
\* subscription event carries the mapped status.
C19_StatusMappingTotal ==
    /\ [](\A e \in DOMAIN StatusEvents :
            /\ MapSubscriptionStatus(StatusEvents[e]) = SameNameOrDefault(StatusEvents[e])
            /\ MapSubscriptionStatus(StatusEvents[e]) \in Statuses)
    /\ [][\A w \in Workers :
            (Steps(w, "write") /\ dl[w].ev \in DOMAIN StatusEvents)
            => \/ dl'[w].threw
               \/ /\ dl'[w].pc = "mark"
                  /\ subs'["sub_1"].status = SameNameOrDefault(StatusEvents[dl[w].ev])]_vars

C19_Witness ==
    /\ Has(ledger, "evt_st_other") /\ ledger["evt_st_other"].processed
    /\ subs["sub_1"].status = "INCOMPLETE"

IsInvoiceEvent(e) ==
    e # NULL /\ EvType(e) \in {"invoice.payment_succeeded", "invoice.payment_failed"}

\* C20: an invoice event changes at most the status of the subscription the
\* invoice names: invoice.payment_succeeded writes ACTIVE when the row is known
\* and not ACTIVE, invoice.payment_failed writes PAST_DUE when the row is
\* known; with no subscription on the invoice or an unknown one nothing is
\* written, no row is created and the handler returns.
C20_InvoiceNudges ==
    [][\A w \in Workers :
          (IsInvoiceEvent(dl[w].ev) /\ dl'[w] # dl[w] /\ dl[w].pc \in {"proc", "write"})
          => LET id == EvObj(dl[w].ev).subscription
                 known == id # NULL /\ Has(subs, id)
                 ok == EvType(dl[w].ev) = "invoice.payment_succeeded" IN
             /\ users' = users /\ products' = products /\ prices' = prices /\ pms' = pms
             /\ DOMAIN subs' = DOMAIN subs
             /\ \A x \in DOMAIN subs :
                   IF known /\ x = id
                   THEN [subs'[x] EXCEPT !.status = subs[x].status] = subs[x]
                   ELSE subs'[x] = subs[x]
             /\ ~dl'[w].threw
                   => /\ (~known) => (subs' = subs /\ dl'[w].pc = "mark")
                      /\ (known /\ ok /\ dl[w].pc = "proc")
                            => /\ subs' = subs
                               /\ dl'[w].pc = IF subs[id].status = "ACTIVE"
                                              THEN "mark" ELSE "write"
                      /\ (known /\ ok /\ dl[w].pc = "write")
                            => (subs'[id].status = "ACTIVE" /\ dl'[w].pc = "mark")
                      /\ (known /\ ~ok)
                            => (subs'[id].status = "PAST_DUE" /\ dl'[w].pc = "mark")]_vars

\* payment_succeeded for the past-due sub_2 and payment_failed for the active
\* sub_1 are processed.
C20_Witness ==
    /\ Has(ledger, "evt_inv1ok") /\ ledger["evt_inv1ok"].processed
    /\ Has(ledger, "evt_inv3fail") /\ ledger["evt_inv3fail"].processed
    /\ subs = [SeedSubs EXCEPT !["sub_1"].status = "PAST_DUE", !["sub_2"].status = "ACTIVE"]

\* C21: a delivery of an event whose type has no case in processEvent changes
\* no entity table, writes no ledger record but that of its event id, goes
\* from the dispatch straight to the processed mark and is answered 200.
C21_UnknownTypeAcknowledged ==
    [][\A w \in Workers :
          (/\ dl[w].ev # NULL
           /\ EvType(dl[w].ev) = "charge.succeeded"
           /\ dl'[w] # dl[w])
          => LET e == dl[w].ev IN
             /\ tables' = tables
             /\ DOMAIN ledger' \subseteq DOMAIN ledger \cup {e}
             /\ \A k \in DOMAIN ledger \ {e} : ledger'[k] = ledger[k]
             /\ ~dl'[w].threw
             /\ dl[w].pc = "proc" => dl'[w].pc = "mark"
             /\ dl[w].pc = "mark"
                   => (dl'[w].pc = "done" /\ dl'[w].resp = 200 /\ ledger'[e].processed)]_vars

C21_Witness ==
    \E w \in Workers :
        /\ dl[w].ev = "evt_other" /\ dl[w].pc = "done" /\ dl[w].resp = 200 /\ dl[w].ran
        /\ ledger["evt_other"].processed
        /\ EvType("evt_other") \notin HandledTypes
        /\ subs = SeedSubs /\ users = SeedUsers /\ pms = EmptyTable

IsDeletion(e) == e # NULL /\ EvType(e) \in {"product.deleted", "price.deleted"}

\* C22: no step removes a Product or Price row; product.deleted and
\* price.deleted set active = false on the row of that id, when there is one,
\* and change nothing else; every Subscription's price stays resolvable.
C22_SoftDeleteOnly ==
    /\ [](\A x \in DOMAIN subs : Has(prices, subs[x].priceId))
    /\ [][/\ DOMAIN products \subseteq DOMAIN products'
          /\ DOMAIN prices \subseteq DOMAIN prices'
          /\ \A w \in Workers :
                (IsDeletion(dl[w].ev) /\ Steps(w, "proc") /\ ~dl'[w].threw)
                => LET id == EvObj(dl[w].ev).id
                       Off(t) == IF id \in DOMAIN t
                                 THEN [k \in DOMAIN t |->
                                          IF k = id THEN [t[k] EXCEPT !.active = FALSE]
                                          ELSE t[k]]
                                 ELSE t IN
                   IF EvType(dl[w].ev) = "product.deleted"
                   THEN products' = Off(products) /\ prices' = prices
                   ELSE prices' = Off(prices) /\ products' = products]_vars

\* price.deleted of price_1 is processed: the row is there, inactive, and the
\* subscriptions still reference it.
C22_Witness ==
    /\ Has(ledger, "evt_price1del") /\ ledger["evt_price1del"].processed
    /\ Has(prices, "price_1") /\ ~prices["price_1"].active
    /\ Has(subs, "sub_1") /\ subs["sub_1"].priceId = "price_1"

\* C23: payment_method.detached, when storage carries out the delete, leaves
\* the payment methods without the row of that id and the other rows as they
\* were; with the row absent nothing changes; it never throws; removing twice
\* is removing once.
C23_DetachIdempotent ==
    /\ [](\A id \in {"pm_1", "pm_2"} : Remove(Remove(pms, id), id) = Remove(pms, id))
    /\ [][\A w \in Workers :
            (/\ dl[w].ev # NULL
             /\ EvType(dl[w].ev) = "payment_method.detached"
             /\ Steps(w, "proc"))
            => LET id == EvObj(dl[w].ev).id IN
               /\ ~dl'[w].threw /\ dl'[w].pc = "mark"
               /\ users' = users /\ products' = products /\ prices' = prices
               /\ subs' = subs
               /\ dl'[w].r1 # "rejected"
                     => /\ id \notin DOMAIN pms'
                        /\ DOMAIN pms' = DOMAIN pms \ {id}
                        /\ \A k \in DOMAIN pms' : pms'[k] = pms[k]
               /\ id \notin DOMAIN pms => pms' = pms]_vars

\* pm_1 was attached and then detached; a second delivery of the detach event
\* ran the reconciler on the absent row.
C23_Witness ==
    /\ Has(ledger, "evt_pm1") /\ ledger["evt_pm1"].processed
    /\ ~Has(pms, "pm_1")
    /\ \A w \in Workers :
          /\ dl[w].ev = "evt_pm1det" /\ dl[w].ran /\ dl[w].r1 # "rejected"
          /\ dl[w].pc = "done" /\ dl[w].resp = 200

\* C24: every Price row has interval and intervalCount both set when its type
\* is RECURRING and both null otherwise.
C24_IntervalIffRecurring ==
    \A p \in DOMAIN prices :
        IF prices[p].type = "RECURRING"
        THEN prices[p].interval # NULL /\ prices[p].intervalCount # NoDate
        ELSE prices[p].interval = NULL /\ prices[p].intervalCount = NoDate

\* Event e is marked processed and a delivery of it has been answered 200.
Acknowledged(e) ==
    /\ Has(ledger, e) /\ ledger[e].processed
    /\ \E w \in Workers : dl[w].ev = e /\ dl[w].pc = "done" /\ dl[w].resp = 200

\* C25: with the processor redelivering and the reconcilers throwing only for
\* a while, every emitted event is eventually marked processed and
\* acknowledged; a delivery that finds the record unprocessed, left so by a
\* throw, goes on to the reconciler.
C25_EventuallyProcessed ==
    /\ \A e \in LiveEvents : (e \in sent) ~> Acknowledged(e)
    /\ [][\A w \in Workers :
            (Steps(w, "check") /\ Has(ledger, dl[w].ev) /\ ~ledger[dl[w].ev].processed)
            => dl'[w].pc = "store"]_vars

\* The first delivery of the subscription event threw, which left the record
\* unprocessed; a redelivery is acknowledged.
C25_Witness ==
    /\ Acknowledged("evt_sub1upd")
    /\ now = MaxTime
    /\ \E w \in Workers :
          /\ dl[w].ev = "evt_sub1upd" /\ dl[w].pc = "done" /\ dl[w].resp = 200 /\ dl[w].ran
    /\ \E w \in Workers :
          /\ dl[w].ev = "evt_sub1upd" /\ dl[w].pc = "done" /\ dl[w].resp = 400 /\ dl[w].threw

\* C26: a ledger record appears at the upsert of the first delivery of its
\* event id that gets there, is never removed, and its processed flag, once
\* true, stays true, the upsert of a later delivery included.
C26_LedgerMonotone ==
    [][/\ DOMAIN ledger \subseteq DOMAIN ledger'
       /\ \A e \in DOMAIN ledger : ledger[e].processed => ledger'[e].processed
       /\ \A e \in DOMAIN ledger' \ DOMAIN ledger :
             /\ ~ledger'[e].processed
             /\ \E w \in Workers : Steps(w, "store") /\ dl[w].ev = e
       /\ \A w \in Workers :
             Steps(w, "store")
             => /\ Has(ledger', dl[w].ev)
                /\ DOMAIN ledger' = DOMAIN ledger \cup {dl[w].ev}
                /\ Has(ledger, dl[w].ev)
                      => ledger'[dl[w].ev].processed = ledger[dl[w].ev].processed]_vars

\* A delivery that read the record as unprocessed has run its upsert after
\* another delivery marked the record processed.
C26_Witness ==
    \E w \in Workers :
        /\ dl[w].pc = "proc" /\ ~dl[w].ran
        /\ Has(ledger, dl[w].ev) /\ ledger[dl[w].ev].processed

\* C27: the write of an at-period-end cancel leaves the status column as it
\* finds it: a status that a webhook wrote after the cancel read the row is
\* not replaced by the status the cancel read.
C27_CancelKeepsNewerStatus ==
    [][\A c \in Callers :
          (act[c].pc = "ca_write" /\ act'[c] # act[c] /\ ~act[c].immediate)
          => subs'[act[c].sub].status = subs[act[c].sub].status]_vars

\* C28: with checkouts running concurrently, a user's stripeCustomerId, once
\* written, is not replaced by another id, and when no checkout is in flight
\* every session created refers to a customer id that a user is linked to.
C28_CustomerCreatedOnce ==
    /\ [][\A u \in DOMAIN users :
            users[u].stripeCustomerId # NULL
            => users'[u].stripeCustomerId = users[u].stripeCustomerId]_vars
    /\ []((\A c \in Callers : act[c].pc \in {"idle", "done"})
          => \A se \in stripe.sessions :
                \E u \in DOMAIN users : users[u].stripeCustomerId = se.customer)

\* The customer.subscription.deleted event of subscription id is in the ledger
\* as processed.
DeletionProcessed(id) ==
    \E e \in DOMAIN ledger :
        /\ ledger[e].processed
        /\ EvType(e) = "customer.subscription.deleted"
        /\ EvObj(e).id = id

\* C29: once the deletion of a subscription has been processed and its row is
\* CANCELED with endedAt set, no step of an invoice.payment_succeeded delivery
\* changes that status.
C29_CanceledIsTerminal ==
    [][\A id \in DOMAIN subs :
          (/\ DeletionProcessed(id)
           /\ subs[id].status = "CANCELED"
           /\ subs[id].endedAt # NoDate
           /\ \E w \in Workers :
                 dl'[w] # dl[w] /\ EvType(dl[w].ev) = "invoice.payment_succeeded")
          => subs'[id].status = "CANCELED"]_vars

\* C30: cancel, reactivate and change called with a subscription id that does
\* not exist or belongs to another user end at once with the not-found error,
\* make no processor call and no local change, and the answer carries nothing
\* but the arguments: it is the same for an id of another user as for an id
\* that does not exist.
C30_OwnershipIsolation ==
    [][\A c \in Callers :
          (/\ act[c].pc = "idle"
           /\ act'[c] # act[c]
           /\ act'[c].op \in {"cancel", "reactivate", "change"}
           /\ ~(/\ Has(subs, act'[c].sub)
                /\ subs[act'[c].sub].userId = act'[c].user))
          => /\ act'[c] = [ActIdle EXCEPT !.pc = "done", !.result = "error",
                                          !.op = act'[c].op, !.user = act'[c].user,
                                          !.sub = act'[c].sub, !.price = act'[c].price,
                                          !.immediate = act'[c].immediate]
             /\ ~act'[c].called
             /\ <<tables, stripe>>' = <<tables, stripe>>]_vars

\* changeSubscription has refused user u2 the subscription of user u1, which
\* exists: the call ended in the error without a processor call.
C30_Witness ==
    /\ act["a1"].pc = "done"
    /\ act["a1"].op = "change"
    /\ act["a1"].user = "u2"
    /\ act["a1"].sub = "sub_1"
    /\ Has(subs, "sub_1") /\ subs["sub_1"].userId = "u1"
    /\ act["a1"].result = "error"
    /\ ~act["a1"].called

====
